---- MODULE Spec2Model ----
(***************************************************************************)
(* GuardianAI: the rule engine (RuleProcessorService), the approval        *)
(* service (TransactionApprovalService) and the monitor                    *)
(* (TransactionMonitorService) as state machines.                          *)
(*                                                                         *)
(* SpecEngine  : rule-set CRUD and evaluateTransaction.                    *)
(* SpecEval    : evaluateTransaction applied to rule sets of every shape.  *)
(* Spec        : the approval request lifecycle, started from a rule       *)
(*               engine configuration that the engine's own operations     *)
(*               produce.                                                  *)
(* SpecMonitor : the monitor (TransactionMonitorService) feeding the       *)
(*               approval service through the TransactionMonitor           *)
(*               component.                                                *)
(* SpecSweep   : the started monitor with the chain mining blocks          *)
(*               (handleNewBlock).                                         *)
(* SpecAnalyze : analyzeTransaction applied to records of every shape.     *)
(***************************************************************************)
EXTENDS Integers, Sequences, FiniteSets, TLC

\* ------------------------------------------------------------------ bounds
MaxRuleSets == 2
MaxRules == 2
MaxRequests == 1
MaxTime == 2
MaxReports == 2
MaxStarts == 2
MaxBlocks == 2

\* ethers.formatEther divides by 10^18; the model's base unit is 10^17 wei,
\* so one ether is WeiPerEther base units.
WeiPerEther == 10

NoId == 0
NoEval == [none |-> TRUE]

\* ------------------------------------------------------------ data: strings
\* A string is a sequence of characters; toLowerCase maps it characterwise.
ToLowerChar(c) ==
  CASE c = "A" -> "a"
    [] c = "B" -> "b"
    [] c = "C" -> "c"
    [] OTHER -> c

ToLowerCase(s) == [i \in DOMAIN s |-> ToLowerChar(s[i])]

\* String.prototype.includes
Includes(s, sub) ==
  \E i \in 0..(Len(s) - Len(sub)) : SubSeq(s, i + 1, i + Len(sub)) = sub

\* Array.prototype.includes / some over a list
ListIncludes(list, x) == \E i \in DOMAIN list : list[i] = x

\* ------------------------------------------------------------ data: numbers
\* parseFloat(ethers.formatEther(v)): base units to a decimal number, kept
\* as an exact fraction.
Num(n, d) == [num |-> n, den |-> d]
FormatEther(v) == Num(v, WeiPerEther)
NumEq(a, b) == a.num * b.den = b.num * a.den
NumLt(a, b) == a.num * b.den < b.num * a.den
NumGt(a, b) == a.num * b.den > b.num * a.den

\* ------------------------------------------------------- data: transactions
\* Addresses are written in mixed case, as checksummed addresses are.
AddrA == <<"A", "b">>
AddrB == <<"b", "B">>
AddrRouter == <<"C", "d">>

\* value is in base units (FormatEther), gasPrice in base units of
\* WeiPerGwei to the gwei; path is the decoded swap path (empty when the
\* call was not decoded or has no path).
WeiPerGwei == 10

TxSwap ==
  [hash |-> "h1", type |-> "SWAP", to |-> AddrRouter, value |-> 3,
   gasPrice |-> 20, gasLimit |-> 2, path |-> <<AddrA, AddrRouter, AddrB>>]

TxTransferSmall ==
  [hash |-> "h2", type |-> "TRANSFER", to |-> AddrA, value |-> 3,
   gasPrice |-> 20, gasLimit |-> 1, path |-> <<>>]

TxTransferLarge ==
  [hash |-> "h3", type |-> "TRANSFER", to |-> AddrA, value |-> 20,
   gasPrice |-> 20, gasLimit |-> 1, path |-> <<>>]

Transactions == {TxSwap, TxTransferSmall, TxTransferLarge}

\* the transactions offered for approval
OfferedTransactions == {TxTransferSmall, TxTransferLarge}

\* ---------------------------------------------------------- data: conditions
\* RuleCondition.value is `any`: a scalar is a one-item list with
\* isArray = FALSE.
Scalar(x) == [isArray |-> FALSE, items |-> <<x>>]
List(xs) == [isArray |-> TRUE, items |-> xs]
Cond(t, o, v) == [type |-> t, operator |-> o, value |-> v]

CondKindSwap == Cond("transaction_type", "equals", Scalar("SWAP"))
CondValueBelowHalf == Cond("value_threshold", "less_than", Scalar(Num(1, 2)))
CondDestA == Cond("destination_address", "equals", Scalar(<<"a", "B">>))
CondValueAboveOne == Cond("value_threshold", "greater_than", Scalar(Num(1, 1)))
CondCustomThrows == Cond("custom", "equals", Scalar("fn_throws"))
CondCustomTrue == Cond("custom", "equals", Scalar("fn_true"))
CondBadOperator == Cond("value_threshold", "contains", Scalar(Num(1, 1)))
CondBadType == Cond("nft_owner", "equals", Scalar("x"))
CondTokenB == Cond("token_address", "contains", Scalar(<<"B", "b">>))
CondKindGreater == Cond("transaction_type", "greater_than", Scalar("SWAP"))
CondTokenRouter == Cond("token_address", "contains", Scalar(<<"C", "d">>))
CondTokenAB == Cond("token_address", "equals", Scalar(<<"A", "b", ",", "B", "b">>))

\* The condition lists handed to addRule / updateRule.
ConditionLists ==
  { <<>>,
    <<CondKindSwap, CondValueBelowHalf>>,
    <<CondDestA, CondValueAboveOne>>,
    <<CondCustomThrows>> }

\* ------------------------------------------------------------------- state
VARIABLES
  ruleSets,          \* RuleProcessorService.ruleSets: id -> [rules, isActive]
  activeRuleSetId,   \* RuleProcessorService.activeRuleSetId (NoId = null)
  nextRuleSetId,     \* ids are fresh: Date.now() + random suffix
  nextRuleId,
  lastCall,          \* the most recently completed call and what it returned
  approvalRequests,  \* TransactionApprovalService.approvalRequests: id -> request
  requestTimeout,    \* TransactionApprovalService.requestTimeout
  autoApproveEnabled,
  timers,            \* setTimeout callbacks not yet run: [id, due]
  inflight,          \* executeTransaction calls awaiting the wallet:
                     \* [id, caller, status]
  log,               \* per request id: events emitted and wallet calls issued
  nextRequestId,     \* ids are fresh: Date.now() + random suffix
  now,               \* Date.now()
  isMonitoring,      \* TransactionMonitorService.isMonitoring
  subscribed,        \* the provider holds the monitor's 'pending' listener
  monitoredAddresses,  \* TransactionMonitorService.monitoredAddresses
  pendingTransactions,    \* TransactionMonitorService.pendingTransactions
  confirmedTransactions,  \* TransactionMonitorService.confirmedTransactions
  fetching,          \* handlePendingTransaction calls awaiting the provider
  monitorLog,        \* events the monitor has emitted, in order
  reported,          \* how many hashes the event source has reported
  started,           \* how many times startMonitoring has been called
  chain,             \* the blocks mined so far: the hashes each includes
  sweeps             \* handleNewBlock calls awaiting the provider

engineVars == <<ruleSets, activeRuleSetId, nextRuleSetId, nextRuleId>>
approvalVars ==
  <<approvalRequests, requestTimeout, autoApproveEnabled,
    timers, inflight, log, nextRequestId, now>>
monitorVars ==
  <<isMonitoring, subscribed, monitoredAddresses, pendingTransactions,
    confirmedTransactions, fetching, monitorLog, reported, started,
    chain, sweeps>>
vars ==
  <<ruleSets, activeRuleSetId, nextRuleSetId, nextRuleId, lastCall,
    approvalRequests, requestTimeout, autoApproveEnabled,
    timers, inflight, log, nextRequestId, now,
    isMonitoring, subscribed, monitoredAddresses, pendingTransactions,
    confirmedTransactions, fetching, monitorLog, reported, started,
    chain, sweeps>>

\* ----------------------------------------------------- condition evaluators
Result(m, d) == [isMatch |-> m, details |-> d]

\* evaluateTransactionType
evaluateTransactionType(tx, c) ==
  LET value == c.value
      one == (~value.isArray) /\ value.items[1] = tx.type
  IN CASE c.operator = "equals" -> Result(one, "compared")
       [] c.operator = "not_equals" -> Result(~one, "compared")
       [] c.operator = "in" ->
            Result(ListIncludes(value.items, tx.type), "compared")
       [] c.operator = "not_in" ->
            Result(~ListIncludes(value.items, tx.type), "compared")
       [] OTHER -> Result(FALSE, "unsupported_operator")

\* the address a token_address condition looks at, always the recipient
TokenAddressOfRecipient(tx) == ToLowerCase(tx.to)

\* the address a token_address condition looks at
TokenAddressOf(tx) ==
  IF tx.type = "SWAP" /\ Len(tx.path) >= 2
    THEN ToLowerCase(tx.path[1]) \o <<",">> \o ToLowerCase(tx.path[Len(tx.path)])
    ELSE ToLowerCase(tx.to)

LowerItems(value) == [i \in DOMAIN value.items |-> ToLowerCase(value.items[i])]

\* evaluateTokenAddress
evaluateTokenAddress(tx, c) ==
  LET tokenAddress == TokenAddressOf(tx)
      v == ToLowerCase(c.value.items[1])
      vs == LowerItems(c.value)
      some == \E i \in DOMAIN vs : Includes(tokenAddress, vs[i])
  IN CASE c.operator = "equals" -> Result(tokenAddress = v, "compared")
       [] c.operator = "not_equals" -> Result(tokenAddress # v, "compared")
       [] c.operator = "contains" -> Result(Includes(tokenAddress, v), "compared")
       [] c.operator = "not_contains" -> Result(~Includes(tokenAddress, v), "compared")
       [] c.operator = "in" -> Result(some, "compared")
       [] c.operator = "not_in" -> Result(~some, "compared")
       [] OTHER -> Result(FALSE, "unsupported_operator")

\* evaluateDestinationAddress comparing the addresses as written
evaluateDestinationAddressExact(tx, c) ==
  LET destinationAddress == tx.to
      v == c.value.items[1]
      vs == c.value.items
  IN CASE c.operator = "equals" -> Result(destinationAddress = v, "compared")
       [] c.operator = "not_equals" -> Result(destinationAddress # v, "compared")
       [] c.operator = "in" -> Result(ListIncludes(vs, destinationAddress), "compared")
       [] c.operator = "not_in" -> Result(~ListIncludes(vs, destinationAddress), "compared")
       [] OTHER -> Result(FALSE, "unsupported_operator")

\* evaluateDestinationAddress
evaluateDestinationAddress(tx, c) ==
  LET destinationAddress == ToLowerCase(tx.to)
      v == ToLowerCase(c.value.items[1])
      vs == LowerItems(c.value)
  IN CASE c.operator = "equals" -> Result(destinationAddress = v, "compared")
       [] c.operator = "not_equals" -> Result(destinationAddress # v, "compared")
       [] c.operator = "in" -> Result(ListIncludes(vs, destinationAddress), "compared")
       [] c.operator = "not_in" -> Result(~ListIncludes(vs, destinationAddress), "compared")
       [] OTHER -> Result(FALSE, "unsupported_operator")

\* the four numeric operators shared by value_threshold and gas_threshold
CompareNumber(x, c) ==
  LET value == c.value.items[1]
  IN CASE c.operator = "equals" -> Result(NumEq(x, value), "compared")
       [] c.operator = "not_equals" -> Result(~NumEq(x, value), "compared")
       [] c.operator = "greater_than" -> Result(NumGt(x, value), "compared")
       [] c.operator = "less_than" -> Result(NumLt(x, value), "compared")
       [] OTHER -> Result(FALSE, "unsupported_operator")

\* evaluateValueThreshold
evaluateValueThreshold(tx, c) == CompareNumber(FormatEther(tx.value), c)

\* evaluateGasThreshold: gas price in gwei times gas limit
evaluateGasThreshold(tx, c) ==
  CompareNumber(Num(tx.gasPrice * tx.gasLimit, WeiPerGwei), c)

\* evaluateCustomCondition counting a throwing function as a match
evaluateCustomConditionThrowMatches(tx, c) ==
  LET value == c.value.items[1]
  IN CASE value = "fn_true" -> Result(TRUE, "custom_result")
       [] value = "fn_false" -> Result(FALSE, "custom_result")
       [] value = "fn_throws" -> Result(TRUE, "custom_error")
       [] OTHER -> Result(FALSE, "not_a_function")

\* evaluateCustomCondition: the try/catch turns a throwing function into a
\* non-match
evaluateCustomCondition(tx, c) ==
  LET value == c.value.items[1]
  IN CASE value = "fn_true" -> Result(TRUE, "custom_result")
       [] value = "fn_false" -> Result(FALSE, "custom_result")
       [] value = "fn_throws" -> Result(FALSE, "custom_error")
       [] OTHER -> Result(FALSE, "not_a_function")

\* evaluateCondition with a default branch that matches
evaluateConditionDefaultMatches(tx, c) ==
  CASE c.type = "transaction_type" -> evaluateTransactionType(tx, c)
    [] c.type = "token_address" -> evaluateTokenAddress(tx, c)
    [] c.type = "destination_address" -> evaluateDestinationAddress(tx, c)
    [] c.type = "value_threshold" -> evaluateValueThreshold(tx, c)
    [] c.type = "gas_threshold" -> evaluateGasThreshold(tx, c)
    [] c.type = "custom" -> evaluateCustomCondition(tx, c)
    [] OTHER -> Result(TRUE, "unknown_type")

\* evaluateCondition
evaluateCondition(tx, c) ==
  CASE c.type = "transaction_type" -> evaluateTransactionType(tx, c)
    [] c.type = "token_address" -> evaluateTokenAddress(tx, c)
    [] c.type = "destination_address" -> evaluateDestinationAddress(tx, c)
    [] c.type = "value_threshold" -> evaluateValueThreshold(tx, c)
    [] c.type = "gas_threshold" -> evaluateGasThreshold(tx, c)
    [] c.type = "custom" -> evaluateCustomCondition(tx, c)
    [] OTHER -> Result(FALSE, "unknown_type")

\* evaluateRule in which a rule without conditions matches nothing
evaluateRuleNeedingCondition(tx, rule) ==
  LET conditionResults ==
        [i \in DOMAIN rule.conditions |-> evaluateCondition(tx, rule.conditions[i])]
  IN [ruleId |-> rule.id,
      isMatch |-> /\ rule.conditions # <<>>
                  /\ \A i \in DOMAIN conditionResults : conditionResults[i].isMatch,
      details |-> [i \in DOMAIN conditionResults |-> conditionResults[i].details]]

\* evaluateRule: conditions.every(isMatch)
evaluateRule(tx, rule) ==
  LET conditionResults ==
        [i \in DOMAIN rule.conditions |-> evaluateCondition(tx, rule.conditions[i])]
  IN [ruleId |-> rule.id,
      isMatch |-> \A i \in DOMAIN conditionResults : conditionResults[i].isMatch,
      details |-> [i \in DOMAIN conditionResults |-> conditionResults[i].details]]

\* ruleSet.rules.filter(r => r.isEnabled), mutated: every rule
AllRules(rules) == rules

\* ruleSet.rules.filter(r => r.isEnabled)
EnabledRules(rules) == SelectSeq(rules, LAMBDA r : r.isEnabled)

DefaultAllow(tx) ==
  [transactionHash |-> tx.hash, isApproved |-> TRUE, matchedRules |-> <<>>]

\* evaluateTransaction(transaction, ruleSetId?) on the engine state (rs, active)
EvaluateOn(rs, active, tx, ruleSetId) ==
  LET targetRuleSetId == IF ruleSetId # NoId THEN ruleSetId ELSE active
  IN IF targetRuleSetId = NoId THEN DefaultAllow(tx)
     ELSE IF targetRuleSetId \notin DOMAIN rs THEN DefaultAllow(tx)
     ELSE IF ~rs[targetRuleSetId].isActive THEN DefaultAllow(tx)
     ELSE
       LET enabledRules == EnabledRules(rs[targetRuleSetId].rules)
           ruleResults == [i \in DOMAIN enabledRules |-> evaluateRule(tx, enabledRules[i])]
           matchedRules == SelectSeq(ruleResults, LAMBDA r : r.isMatch)
       IN [transactionHash |-> tx.hash,
           isApproved |-> Len(matchedRules) = 0,
           matchedRules |-> matchedRules]

evaluateTransaction(tx, ruleSetId) ==
  EvaluateOn(ruleSets, activeRuleSetId, tx, ruleSetId)

\* ------------------------------------------------------ rule engine: actions
\* ids a caller may pass: created ones and ones that were never created
RuleSetIdInputs == 1..(MaxRuleSets + 1)
RuleIdInputs == 1..(MaxRules + 1)

EngineInit ==
  /\ ruleSets = <<>>
  /\ activeRuleSetId = NoId
  /\ nextRuleSetId = 1
  /\ nextRuleId = 1

\* createRuleSet
CreateRuleSet ==
  /\ nextRuleSetId <= MaxRuleSets
  /\ ruleSets' = [id \in DOMAIN ruleSets \cup {nextRuleSetId} |->
                    IF id = nextRuleSetId
                      THEN [rules |-> <<>>, isActive |-> FALSE]
                      ELSE ruleSets[id]]
  /\ nextRuleSetId' = nextRuleSetId + 1
  /\ lastCall' = [op |-> "createRuleSet", id |-> nextRuleSetId]
  /\ UNCHANGED <<activeRuleSetId, nextRuleId, approvalVars, monitorVars>>

\* setActiveRuleSet without clearing the current one
KeepCurrentActive(rs, active) == rs

\* setActiveRuleSet, first half: the currently active rule set is cleared
DeactivateCurrent(rs, active) ==
  IF active # NoId /\ active \in DOMAIN rs
    THEN [rs EXCEPT ![active].isActive = FALSE]
    ELSE rs

\* setActiveRuleSet clearing the current rule set before it looks the id up
SetActiveRuleSetClearingFirst(id) ==
  IF id \notin DOMAIN ruleSets
    THEN /\ ruleSets' = DeactivateCurrent(ruleSets, activeRuleSetId)
         /\ lastCall' = [op |-> "setActiveRuleSet", id |-> id, result |-> FALSE,
                         previous |-> activeRuleSetId]
         /\ UNCHANGED <<activeRuleSetId, nextRuleSetId, nextRuleId,
                        approvalVars, monitorVars>>
    ELSE /\ ruleSets' = [DeactivateCurrent(ruleSets, activeRuleSetId)
                           EXCEPT ![id].isActive = TRUE]
         /\ activeRuleSetId' = id
         /\ lastCall' = [op |-> "setActiveRuleSet", id |-> id, result |-> TRUE,
                         previous |-> activeRuleSetId]
         /\ UNCHANGED <<nextRuleSetId, nextRuleId, approvalVars, monitorVars>>

\* setActiveRuleSet
SetActiveRuleSet(id) ==
  IF id \notin DOMAIN ruleSets
    THEN /\ lastCall' = [op |-> "setActiveRuleSet", id |-> id, result |-> FALSE,
                         previous |-> activeRuleSetId]
         /\ UNCHANGED <<engineVars, approvalVars, monitorVars>>
    ELSE /\ ruleSets' = [DeactivateCurrent(ruleSets, activeRuleSetId)
                           EXCEPT ![id].isActive = TRUE]
         /\ activeRuleSetId' = id
         /\ lastCall' = [op |-> "setActiveRuleSet", id |-> id, result |-> TRUE,
                         previous |-> activeRuleSetId]
         /\ UNCHANGED <<nextRuleSetId, nextRuleId, approvalVars, monitorVars>>

\* addRule putting the new rule in front (unshift for push)
AddRulePrepending(ruleSetId, conditions) ==
  IF ruleSetId \notin DOMAIN ruleSets
    THEN /\ lastCall' = [op |-> "addRule", id |-> ruleSetId, result |-> NoId]
         /\ UNCHANGED <<engineVars, approvalVars, monitorVars>>
    ELSE /\ nextRuleId <= MaxRules
         /\ ruleSets' = [ruleSets EXCEPT ![ruleSetId].rules =
               <<[id |-> nextRuleId, conditions |-> conditions,
                  isEnabled |-> TRUE]>> \o @]
         /\ nextRuleId' = nextRuleId + 1
         /\ lastCall' = [op |-> "addRule", id |-> ruleSetId, result |-> nextRuleId]
         /\ UNCHANGED <<activeRuleSetId, nextRuleSetId, approvalVars, monitorVars>>

\* addRule
AddRule(ruleSetId, conditions) ==
  IF ruleSetId \notin DOMAIN ruleSets
    THEN /\ lastCall' = [op |-> "addRule", id |-> ruleSetId, result |-> NoId]
         /\ UNCHANGED <<engineVars, approvalVars, monitorVars>>
    ELSE /\ nextRuleId <= MaxRules
         /\ ruleSets' = [ruleSets EXCEPT ![ruleSetId].rules =
               Append(@, [id |-> nextRuleId, conditions |-> conditions,
                          isEnabled |-> TRUE])]
         /\ nextRuleId' = nextRuleId + 1
         /\ lastCall' = [op |-> "addRule", id |-> ruleSetId, result |-> nextRuleId]
         /\ UNCHANGED <<activeRuleSetId, nextRuleSetId, approvalVars, monitorVars>>

RuleIndex(rules, ruleId) ==
  IF \E i \in DOMAIN rules : rules[i].id = ruleId
    THEN CHOOSE i \in DOMAIN rules : rules[i].id = ruleId
    ELSE 0

\* updateRule; updates is a partial rule: [isEnabled |-> b] or
\* [conditions |-> cs]
UpdateRule(ruleSetId, ruleId, updates) ==
  LET known == ruleSetId \in DOMAIN ruleSets
      ruleIndex == IF known THEN RuleIndex(ruleSets[ruleSetId].rules, ruleId) ELSE 0
  IN IF ~known \/ ruleIndex = 0
       THEN /\ lastCall' = [op |-> "updateRule", id |-> ruleSetId,
                            ruleId |-> ruleId, result |-> NoId]
            /\ UNCHANGED <<engineVars, approvalVars, monitorVars>>
       ELSE /\ ruleSets' = [ruleSets EXCEPT ![ruleSetId].rules[ruleIndex] =
                  [f \in DOMAIN @ |-> IF f \in DOMAIN updates THEN updates[f] ELSE @[f]]]
            /\ lastCall' = [op |-> "updateRule", id |-> ruleSetId,
                            ruleId |-> ruleId, result |-> ruleId]
            /\ UNCHANGED <<activeRuleSetId, nextRuleSetId, nextRuleId, approvalVars, monitorVars>>

\* deleteRule
DeleteRule(ruleSetId, ruleId) ==
  LET known == ruleSetId \in DOMAIN ruleSets
      kept == IF known
                THEN SelectSeq(ruleSets[ruleSetId].rules, LAMBDA r : r.id # ruleId)
                ELSE <<>>
  IN IF ~known \/ Len(kept) = Len(ruleSets[ruleSetId].rules)
       THEN /\ lastCall' = [op |-> "deleteRule", id |-> ruleSetId,
                            ruleId |-> ruleId, result |-> FALSE]
            /\ UNCHANGED <<engineVars, approvalVars, monitorVars>>
       ELSE /\ ruleSets' = [ruleSets EXCEPT ![ruleSetId].rules = kept]
            /\ lastCall' = [op |-> "deleteRule", id |-> ruleSetId,
                            ruleId |-> ruleId, result |-> TRUE]
            /\ UNCHANGED <<activeRuleSetId, nextRuleSetId, nextRuleId, approvalVars, monitorVars>>

\* a call of evaluateTransaction; ruleSetId = NoId is the call without an id
EvaluateTransaction(tx, ruleSetId) ==
  /\ lastCall' = [op |-> "evaluateTransaction", tx |-> tx, id |-> ruleSetId,
                  result |-> evaluateTransaction(tx, ruleSetId)]
  /\ UNCHANGED <<engineVars, approvalVars, monitorVars>>

RuleUpdates ==
  {[isEnabled |-> FALSE], [isEnabled |-> TRUE]} \cup
  {[conditions |-> cs] : cs \in ConditionLists}

EngineNext ==
  \/ CreateRuleSet
  \/ \E id \in RuleSetIdInputs : SetActiveRuleSet(id)
  \/ \E id \in RuleSetIdInputs, cs \in ConditionLists : AddRule(id, cs)
  \/ \E id \in RuleSetIdInputs, r \in RuleIdInputs, u \in RuleUpdates :
        UpdateRule(id, r, u)
  \/ \E id \in RuleSetIdInputs, r \in RuleIdInputs : DeleteRule(id, r)
  \/ \E tx \in Transactions, id \in {NoId} \cup RuleSetIdInputs :
        EvaluateTransaction(tx, id)

NoCall == [op |-> "none"]

\* --------------------------------------------------------- approval service
DefaultRequestTimeout == 2
Timeouts == {1, DefaultRequestTimeout}
Comments == {"", "ok"}
RequestIdInputs == 1..MaxRequests

\* field initialisers of TransactionApprovalService
ApprovalInit ==
  /\ approvalRequests = <<>>
  /\ requestTimeout = DefaultRequestTimeout
  /\ autoApproveEnabled = FALSE
  /\ timers = {}
  /\ inflight = {}
  /\ log = <<>>
  /\ nextRequestId = 1
  /\ now = 0

\* field initialisers of TransactionMonitorService
MonitorInit ==
  /\ isMonitoring = FALSE
  /\ subscribed = FALSE
  /\ monitoredAddresses = {}
  /\ pendingTransactions = <<>>
  /\ confirmedTransactions = <<>>
  /\ fetching = {}
  /\ monitorLog = <<>>
  /\ reported = 0
  /\ started = 0
  /\ chain = <<>>
  /\ sweeps = {}

InitEngine == EngineInit /\ ApprovalInit /\ MonitorInit /\ lastCall = NoCall

SpecEngine == InitEngine /\ [][EngineNext]_vars

\* ------------------------------------------- evaluateTransaction on its own
\* evaluateTransaction is a function of the rule engine's state and its
\* arguments.  SpecEval starts from a rule set as addRule / updateRule calls
\* leave it, with rules drawn from EvalConditionLists, activated or not, and
\* applies evaluateTransaction to it.
EvalConditionLists ==
  { <<CondDestA, CondValueAboveOne>>,
    <<CondKindSwap>>,
    <<CondTokenB>>,
    <<CondCustomTrue>>,
    <<CondCustomThrows>>,
    <<CondBadOperator>>,
    <<CondKindGreater>>,
    <<CondBadType>>,
    <<CondDestA, CondBadOperator>>,
    <<CondTokenRouter>>,
    <<CondTokenAB>> }

EvalRuleBodies == [conditions : EvalConditionLists, isEnabled : BOOLEAN]

EvalRules(n, f) ==
  [i \in 1..n |-> [id |-> i, conditions |-> f[i].conditions,
                   isEnabled |-> f[i].isEnabled]]

InitEval ==
  /\ \E n \in 0..MaxRules, active \in BOOLEAN :
       \E f \in [1..n -> EvalRuleBodies] :
         /\ ruleSets = <<[rules |-> EvalRules(n, f), isActive |-> active]>>
         /\ activeRuleSetId = IF active THEN 1 ELSE NoId
         /\ nextRuleId = n + 1
  /\ nextRuleSetId = 2
  /\ ApprovalInit
  /\ MonitorInit
  /\ lastCall = NoCall

NextEval ==
  \E tx \in Transactions, id \in {NoId, 1, 2} : EvaluateTransaction(tx, id)

SpecEval == InitEval /\ [][NextEval]_vars

\* what a listener (or the wallet) sees when an event is emitted (a call is
\* issued) for request id: the name and the stored status at that moment
StoredStatus(reqs, id) ==
  IF id \in DOMAIN reqs THEN reqs[id].status ELSE "absent"

Ev(name, reqs, id) == [name |-> name, status |-> StoredStatus(reqs, id)]

Put(reqs, id, request) ==
  [i \in DOMAIN reqs \cup {id} |-> IF i = id THEN request ELSE reqs[i]]

\* setAutoApprove
SetAutoApprove(enabled) ==
  /\ autoApproveEnabled' = enabled
  /\ UNCHANGED <<engineVars, monitorVars, lastCall, approvalRequests, requestTimeout,
                 timers, inflight, log, nextRequestId, now>>

\* setRequestTimeout
SetRequestTimeout(timeoutMs) ==
  /\ requestTimeout' = timeoutMs
  /\ UNCHANGED <<engineVars, monitorVars, lastCall, approvalRequests, autoApproveEnabled,
                 timers, inflight, log, nextRequestId, now>>

\* executeTransaction up to its first suspension.  With a private key and an
\* approved evaluation the wallet is built on metaMaskService.getProvider();
\* without a provider the call throws before anything is sent and the catch
\* emits transaction_failed at once.  Otherwise the transaction is handed to
\* the wallet and the call is suspended until the wallet answers.
\* setPrivateKey / clearPrivateKey may run between any two calls and the key
\* is read nowhere else, so whether a key is set (keySet) and whether the
\* provider exists (providerOk) are inputs of each execution.
ExecuteChannel(request, keySet) ==
  IF request.evaluationResult # NoEval /\ request.evaluationResult.isApproved /\ keySet
    THEN "private_key" ELSE "metamask"

ExecuteStarts(request, keySet, providerOk) ==
  ExecuteChannel(request, keySet) = "metamask" \/ providerOk

ExecuteLogSilent(reqs, id, keySet, providerOk) ==
  IF ExecuteStarts(reqs[id], keySet, providerOk)
    THEN <<Ev("sendTransaction", reqs, id)>>
    ELSE <<>>

\* executeTransaction before its first suspension: the wallet call, or the
\* transaction_failed of the catch when there is no provider
ExecuteLog(reqs, id, keySet, providerOk) ==
  IF ExecuteStarts(reqs[id], keySet, providerOk)
    THEN <<Ev("sendTransaction", reqs, id)>>
    ELSE <<Ev("transaction_failed", reqs, id)>>

\* requestApproval, line 413: the auto-approve test, ignoring the evaluation
AutoApproveIgnoringEvaluation(enabled, evaluationResult) == enabled

\* requestApproval, line 413: the auto-approve test
AutoApproveBranch(enabled, evaluationResult) ==
  enabled /\ evaluationResult.isApproved

\* requestApproval: a timer for every new request
RequestTimersAlways(auto, id, due) == {[id |-> id, due |-> due]}

\* requestApproval: the timer runs for the default delay
RequestTimersDefaultDelay(auto, id, due) ==
  IF auto THEN {} ELSE {[id |-> id, due |-> now + DefaultRequestTimeout]}

\* requestApproval, lines 430-432: the timer is set on the pending branch only
RequestTimers(auto, id, due) ==
  IF auto THEN {} ELSE {[id |-> id, due |-> due]}

\* requestApproval, up to the suspension in executeTransaction on the
\* auto-approve branch
RequestApprovalBody(tx, keySet, providerOk) ==
  LET evaluationResult == evaluateTransaction(tx, NoId)
      id == nextRequestId
      auto == AutoApproveBranch(autoApproveEnabled, evaluationResult)
      request == [transaction |-> tx,
                  evaluationResult |-> evaluationResult,
                  status |-> IF auto THEN "auto_approved" ELSE "pending",
                  createdAt |-> now, updatedAt |-> now,
                  expiresAt |-> now + requestTimeout,
                  userComment |-> ""]
      stored == Put(approvalRequests, id, request)
      starts == ExecuteStarts(request, keySet, providerOk)
  IN /\ nextRequestId' = nextRequestId + 1
     /\ approvalRequests' = stored
     /\ timers' = timers \cup RequestTimers(auto, id, now + requestTimeout)
     /\ IF auto
          THEN /\ log' = Put(log, id,
                     <<Ev("transaction_auto_approved", stored, id)>> \o
                     ExecuteLog(stored, id, keySet, providerOk))
               /\ inflight' = IF starts
                                THEN inflight \cup {[id |-> id, caller |-> "requestApproval",
                                                      status |-> request.status]}
                                ELSE inflight
               /\ lastCall' = IF starts
                                THEN lastCall
                                ELSE [op |-> "requestApproval", id |-> id,
                                      result |-> "raised"]
          ELSE /\ log' = Put(log, id, <<Ev("approval_requested", stored, id)>>)
               /\ inflight' = inflight
               /\ lastCall' = [op |-> "requestApproval", id |-> id,
                               result |-> "returned", status |-> "pending"]
     /\ UNCHANGED <<engineVars, requestTimeout, autoApproveEnabled, now>>

\* a direct call of requestApproval
RequestApproval(tx, keySet, providerOk) ==
  /\ nextRequestId <= MaxRequests
  /\ RequestApprovalBody(tx, keySet, providerOk)
  /\ UNCHANGED monitorVars

\* addTransactionForApproval: no evaluation, no timer, event approval_update
AddTransactionForApproval(tx) ==
  LET id == nextRequestId
      request == [transaction |-> tx,
                  evaluationResult |-> NoEval,
                  status |-> "pending",
                  createdAt |-> now, updatedAt |-> now,
                  expiresAt |-> now + requestTimeout,
                  userComment |-> ""]
      stored == Put(approvalRequests, id, request)
  IN /\ nextRequestId <= MaxRequests
     /\ nextRequestId' = nextRequestId + 1
     /\ approvalRequests' = stored
     /\ log' = Put(log, id, <<Ev("approval_update", stored, id)>>)
     /\ lastCall' = [op |-> "addTransactionForApproval", id |-> id]
     /\ UNCHANGED <<engineVars, monitorVars, requestTimeout, autoApproveEnabled,
                    timers, inflight, now>>

\* approveTransaction's test, checking only that the request exists
ApproveAcceptsKnown(reqs, id) == id \in DOMAIN reqs

\* approveTransaction's test, also letting a rejected request through
ApproveAcceptsRejected(reqs, id) ==
  id \in DOMAIN reqs /\ reqs[id].status \in {"pending", "rejected"}

\* approveTransaction, lines 479-486: the request exists and is pending
ApproveAccepts(reqs, id) ==
  id \in DOMAIN reqs /\ reqs[id].status = "pending"

\* rejectTransaction's test, checking only that the request exists
RejectAcceptsKnown(reqs, id) == id \in DOMAIN reqs

\* rejectTransaction, lines 518-525: the request exists and is pending
RejectAccepts(reqs, id) ==
  id \in DOMAIN reqs /\ reqs[id].status = "pending"

\* handleRequestTimeout without the status test
TimeoutAppliesKnown(reqs, id) == id \in DOMAIN reqs

\* handleRequestTimeout, lines 587-590: the request exists and is pending
TimeoutApplies(reqs, id) ==
  id \in DOMAIN reqs /\ reqs[id].status = "pending"

\* the update both decisions make: status, updatedAt and a non-empty comment
Decide(request, status, comment, time) ==
  [request EXCEPT !.status = status,
                  !.updatedAt = time,
                  !.userComment = IF comment # "" THEN comment ELSE @]

\* approveTransaction up to the suspension in executeTransaction
ApproveTransaction(id, comment, keySet, providerOk) ==
  IF ~ApproveAccepts(approvalRequests, id)
    THEN /\ lastCall' = [op |-> "approveTransaction", id |-> id, result |-> FALSE]
         /\ UNCHANGED <<engineVars, approvalVars, monitorVars>>
    ELSE
      LET stored == [approvalRequests EXCEPT
                       ![id] = Decide(@, "approved", comment, now)]
          starts == ExecuteStarts(stored[id], keySet, providerOk)
      IN /\ approvalRequests' = stored
         /\ log' = [log EXCEPT ![id] = @ \o
                      <<Ev("transaction_approved", stored, id),
                        Ev("approval_update", stored, id)>> \o
                      ExecuteLog(stored, id, keySet, providerOk)]
         /\ inflight' = IF starts
                          THEN inflight \cup {[id |-> id, caller |-> "approveTransaction",
                                                status |-> stored[id].status]}
                          ELSE inflight
         /\ lastCall' = IF starts
                          THEN lastCall
                          ELSE [op |-> "approveTransaction", id |-> id,
                                result |-> FALSE]
         /\ UNCHANGED <<engineVars, monitorVars, requestTimeout, autoApproveEnabled, timers, nextRequestId, now>>

\* The suspended executeTransaction holds the request object itself.  While
\* the request is in the map that object is the stored one; once
\* clearOldRequests has dropped it from the map nothing else refers to it, and
\* it still has the status it had when the call was issued.
HeldStatus(reqs, call) ==
  IF call.id \in DOMAIN reqs THEN reqs[call.id].status ELSE call.status

\* executeTransaction resuming and emitting nothing
SettleLogNothing(reqs, call, ok) == <<>>

\* executeTransaction, lines 640-657: the event emitted when the wallet
\* answers
SettleLog(reqs, call, ok) ==
  <<[name |-> IF ok THEN "transaction_sent" ELSE "transaction_failed",
     status |-> HeldStatus(reqs, call)]>>

\* the wallet answers: executeTransaction resumes, emits transaction_sent or
\* transaction_failed, and its caller returns or raises
ExecuteSettle(call, ok) ==
  /\ call \in inflight
  /\ inflight' = inflight \ {call}
  /\ log' = [log EXCEPT ![call.id] = @ \o SettleLog(approvalRequests, call, ok)]
  /\ lastCall' =
       IF call.caller = "approveTransaction"
         THEN [op |-> "approveTransaction", id |-> call.id, result |-> ok]
         ELSE IF ok
           THEN [op |-> "requestApproval", id |-> call.id, result |-> "returned",
                 status |-> HeldStatus(approvalRequests, call)]
           ELSE [op |-> "requestApproval", id |-> call.id, result |-> "raised"]
  /\ UNCHANGED <<engineVars, monitorVars, approvalRequests, requestTimeout, autoApproveEnabled, timers, nextRequestId, now>>

\* rejectTransaction
RejectTransaction(id, comment) ==
  IF ~RejectAccepts(approvalRequests, id)
    THEN /\ lastCall' = [op |-> "rejectTransaction", id |-> id, result |-> FALSE]
         /\ UNCHANGED <<engineVars, approvalVars, monitorVars>>
    ELSE
      LET stored == [approvalRequests EXCEPT
                       ![id] = Decide(@, "rejected", comment, now)]
      IN /\ approvalRequests' = stored
         /\ log' = [log EXCEPT ![id] = @ \o
                      <<Ev("transaction_rejected", stored, id),
                        Ev("approval_update", stored, id)>>]
         /\ lastCall' = [op |-> "rejectTransaction", id |-> id, result |-> TRUE]
         /\ UNCHANGED <<engineVars, monitorVars, requestTimeout, autoApproveEnabled, timers, inflight, nextRequestId, now>>

\* a due timer runs handleRequestTimeout
HandleRequestTimeout(timer) ==
  /\ timer \in timers
  /\ timer.due <= now
  /\ timers' = timers \ {timer}
  /\ IF TimeoutApplies(approvalRequests, timer.id)
       THEN LET stored == [approvalRequests EXCEPT
                             ![timer.id] = Decide(@, "expired", "", now)]
            IN /\ approvalRequests' = stored
               /\ log' = [log EXCEPT ![timer.id] = @ \o
                            <<Ev("approval_expired", stored, timer.id),
                              Ev("approval_update", stored, timer.id)>>]
       ELSE UNCHANGED <<approvalRequests, log>>
  /\ UNCHANGED <<engineVars, monitorVars, lastCall, requestTimeout, autoApproveEnabled, inflight, nextRequestId, now>>

\* clearOldRequests without the test of the status
ClearOldRequestsAnyStatus(olderThanMs) ==
  LET cutoffTime == now - olderThanMs
      cleared == {id \in DOMAIN approvalRequests :
                    approvalRequests[id].createdAt < cutoffTime}
  IN /\ approvalRequests' =
          [id \in DOMAIN approvalRequests \ cleared |-> approvalRequests[id]]
     /\ lastCall' = [op |-> "clearOldRequests", result |-> Cardinality(cleared)]
     /\ UNCHANGED <<engineVars, monitorVars, requestTimeout, autoApproveEnabled,
                    timers, inflight, log, nextRequestId, now>>

\* clearOldRequests
ClearOldRequests(olderThanMs) ==
  LET cutoffTime == now - olderThanMs
      cleared == {id \in DOMAIN approvalRequests :
                    /\ approvalRequests[id].createdAt < cutoffTime
                    /\ approvalRequests[id].status # "pending"}
  IN /\ approvalRequests' =
          [id \in DOMAIN approvalRequests \ cleared |-> approvalRequests[id]]
     /\ lastCall' = [op |-> "clearOldRequests", result |-> Cardinality(cleared)]
     /\ UNCHANGED <<engineVars, monitorVars, requestTimeout, autoApproveEnabled,
                    timers, inflight, log, nextRequestId, now>>

\* time passes
Tick ==
  /\ now < MaxTime
  /\ now' = now + 1
  /\ UNCHANGED <<engineVars, monitorVars, lastCall, approvalRequests, requestTimeout,
                 autoApproveEnabled, timers, inflight, log,
                 nextRequestId>>

ApprovalNext ==
  \/ \E b \in BOOLEAN : SetAutoApprove(b)
  \/ \E t \in Timeouts : SetRequestTimeout(t)
  \/ \E tx \in OfferedTransactions, k \in BOOLEAN, p \in BOOLEAN :
        RequestApproval(tx, k, p)
  \/ \E tx \in OfferedTransactions : AddTransactionForApproval(tx)
  \/ \E id \in RequestIdInputs, c \in Comments, k \in BOOLEAN, p \in BOOLEAN :
        ApproveTransaction(id, c, k, p)
  \/ \E id \in RequestIdInputs, c \in Comments : RejectTransaction(id, c)
  \/ \E call \in inflight, ok \in BOOLEAN : ExecuteSettle(call, ok)
  \/ \E timer \in timers : HandleRequestTimeout(timer)
  \/ \E age \in 0..1 : ClearOldRequests(age)
  \/ Tick

\* The rule engine as the approval service finds it: freshly constructed, or
\* holding one active rule set with the two deny rules of the examples.
DenyRules ==
  << [id |-> 1, conditions |-> <<CondKindSwap, CondValueBelowHalf>>, isEnabled |-> TRUE],
     [id |-> 2, conditions |-> <<CondDestA, CondValueAboveOne>>, isEnabled |-> TRUE] >>

EngineWithDenyRules ==
  /\ ruleSets = <<[rules |-> DenyRules, isActive |-> TRUE]>>
  /\ activeRuleSetId = 1
  /\ nextRuleSetId = 2
  /\ nextRuleId = 3

Init ==
  /\ EngineWithDenyRules
  /\ ApprovalInit
  /\ MonitorInit
  /\ lastCall = NoCall

Next == ApprovalNext

Spec == Init /\ [][Next]_vars

\* ----------------------------------------------------------- classification
\* A payload is the string '0x' followed by the selector and the encoded
\* arguments: <<"0x">> is the empty payload '0x', <<>> the empty string, and
\* <<"0x", selector, arguments>> a call.  The arguments are "malformed" when
\* they do not decode against the selector's signature.
SigTransfer == "a9059cbb"
SigApprove == "095ea7b3"
SigSwap == "38ed1739"
SigOther == "deadbeef"
EmptyPayload == <<"0x">>
Payload(selector, arguments) == <<"0x", selector, arguments>>

\* String.prototype.startsWith('0x' + selector)
StartsWith(data, selector) ==
  Len(data) >= 2 /\ data[1] = "0x" /\ data[2] = selector

\* data.slice(0, 10): the '0x' and the four selector bytes
MethodSig(data) == SubSeq(data, 1, IF Len(data) < 2 THEN Len(data) ELSE 2)

\* TransactionType.ETH_TRANSFER: the enum TransactionType has no member of
\* that name, so the expression evaluates to undefined.
Undefined == "undefined"

\* registerKnownContracts: a router with the swap interface and a token with
\* the ERC-20 interface, keyed by lower-case address.  A name is its words.
Erc20Abi == {SigTransfer, SigApprove}
UniswapV2RouterAbi == {SigSwap}
KnownContracts ==
  [a \in {ToLowerCase(AddrRouter), ToLowerCase(AddrB)} |->
     IF a = ToLowerCase(AddrRouter)
       THEN [name |-> <<"Uniswap", "V2", "Router">>, abi |-> UniswapV2RouterAbi]
       ELSE [name |-> <<"USDT">>, abi |-> Erc20Abi]]

IsKnownContract(to) == ToLowerCase(to) \in DOMAIN KnownContracts

\* determineTransactionType
determineTransactionType(tx) ==
  LET known == tx.to # <<>> /\ IsKnownContract(tx.to)
      name == KnownContracts[ToLowerCase(tx.to)].name
  IN IF known /\ (Includes(name, <<"Uniswap">>) \/ Includes(name, <<"Sushiswap">>))
       THEN "SWAP"
     ELSE IF known /\ tx.data # <<>> /\ StartsWith(tx.data, SigTransfer)
       THEN "TRANSFER"
     ELSE IF tx.to # <<>> /\ tx.data # <<>> /\ tx.data # EmptyPayload
       THEN IF MethodSig(tx.data) = <<"0x", SigTransfer>> THEN "TRANSFER"
            ELSE IF MethodSig(tx.data) = <<"0x", SigApprove>> THEN "APPROVAL"
            ELSE "CONTRACT_INTERACTION"
     ELSE IF tx.data = <<>> \/ tx.data = EmptyPayload
       THEN Undefined
     ELSE "UNKNOWN"

\* Interface.parseTransaction against an interface: the method of the
\* selector when the interface has it and the arguments decode; it returns
\* null for a selector the interface does not have and throws on arguments
\* that do not decode, and decodeTransactionData treats both alike.
MethodName(selector) ==
  CASE selector = SigTransfer -> "transfer"
    [] selector = SigApprove -> "approve"
    [] selector = SigSwap -> "swapExactTokensForTokens"
    [] OTHER -> "null"

Parses(abi, data) ==
  Len(data) = 3 /\ data[1] = "0x" /\ data[2] \in abi /\ data[3] # "malformed"

\* the address[] path among the decoded arguments
DecodedPath(arguments) ==
  IF arguments = "pathACB" THEN <<AddrA, AddrRouter, AddrB>> ELSE <<>>

NoDecodedData == [method |-> "null", path |-> <<>>]

\* decodeTransactionData: every failure to decode is caught inside and ends
\* in the next attempt or in null.
decodeTransactionData(tx) ==
  IF tx.data = <<>> \/ tx.data = EmptyPayload THEN NoDecodedData
  ELSE IF tx.to # <<>> /\ IsKnownContract(tx.to)
            /\ Parses(KnownContracts[ToLowerCase(tx.to)].abi, tx.data)
    THEN [method |-> MethodName(tx.data[2]), path |-> DecodedPath(tx.data[3])]
  ELSE IF StartsWith(tx.data, SigTransfer) /\ Parses({SigTransfer}, tx.data)
    THEN [method |-> "transfer", path |-> DecodedPath(tx.data[3])]
  ELSE IF StartsWith(tx.data, SigApprove) /\ Parses({SigApprove}, tx.data)
    THEN [method |-> "approve", path |-> DecodedPath(tx.data[3])]
  ELSE NoDecodedData

\* { ...record, ...fields }
Spread(record, fields) ==
  [f \in DOMAIN record \cup DOMAIN fields |->
     IF f \in DOMAIN fields THEN fields[f] ELSE record[f]]

\* analyzeTransaction: the record with its kind and its decoded call.  The
\* decoded call is shown as its method and its swap path.
analyzeTransaction(tx) ==
  LET decodedData == decodeTransactionData(tx)
  IN Spread(tx, [type |-> determineTransactionType(tx),
                 method |-> decodedData.method, path |-> decodedData.path])

\* analyzeTransaction is a public function of the record it is given.
\* SpecAnalyze draws the record and applies the function once.
AnalyzeRecipients == {<<>>, AddrA, AddrB, AddrRouter}
AnalyzePayloads ==
  {<<>>, EmptyPayload,
   Payload(SigTransfer, "wellformed"), Payload(SigTransfer, "malformed"),
   Payload(SigApprove, "wellformed"), Payload(SigApprove, "malformed"),
   Payload(SigSwap, "pathACB"), Payload(SigSwap, "malformed"),
   Payload(SigOther, "wellformed")}
AnalyzeValues == {0, 3}
AnalyzeInputs ==
  {[hash |-> "h1", from |-> AddrA, to |-> to, value |-> value, data |-> data,
    gasPrice |-> 20, gasLimit |-> 0] :
     to \in AnalyzeRecipients, value \in AnalyzeValues, data \in AnalyzePayloads}

InitAnalyze ==
  /\ EngineInit
  /\ ApprovalInit
  /\ MonitorInit
  /\ \E tx \in AnalyzeInputs : lastCall = [op |-> "input", tx |-> tx]

AnalyzeTransaction ==
  /\ lastCall.op = "input"
  /\ lastCall' = [op |-> "analyzeTransaction", tx |-> lastCall.tx,
                  result |-> analyzeTransaction(lastCall.tx)]
  /\ UNCHANGED <<engineVars, approvalVars, monitorVars>>

NextAnalyze == AnalyzeTransaction

SpecAnalyze == InitAnalyze /\ [][NextAnalyze]_vars

\* ------------------------------------------------------------------ monitor
\* What provider.getTransaction returns for a hash.
ChainTx(hash, from, to, value, data, gasLimit) ==
  [hash |-> hash, from |-> from, to |-> to, value |-> value, data |-> data,
   gasPrice |-> 20, gasLimit |-> gasLimit]

\* A transfer of 20 to AddrA, a transfer of 3 with a gas limit, and a token
\* transfer whose arguments do not decode.
ChainTransactions ==
  {ChainTx("h3", AddrB, AddrA, 20, EmptyPayload, 0),
   ChainTx("h2", AddrB, AddrA, 3, EmptyPayload, 1),
   ChainTx("h4", AddrA, AddrB, 0, Payload(SigTransfer, "malformed"), 0)}

ReportedHashes == {tx.hash : tx \in ChainTransactions}
ChainTransaction(hash) == CHOOSE tx \in ChainTransactions : tx.hash = hash
WatchedAddressInputs == {AddrA, AddrRouter}

\* the fields every monitor operation but the block handler leaves alone
blockVars == <<chain, sweeps>>

\* startMonitoring without the test of isMonitoring
StartMonitoringAgain ==
  /\ started < MaxStarts
  /\ started' = started + 1
  /\ subscribed' = TRUE
  /\ isMonitoring' = TRUE
  /\ monitorLog' = Append(monitorLog, [name |-> "monitoring_started"])
  /\ lastCall' = [op |-> "startMonitoring", result |-> TRUE]
  /\ UNCHANGED <<engineVars, approvalVars, monitoredAddresses,
                 pendingTransactions, confirmedTransactions, fetching,
                 reported, blockVars>>

\* startMonitoring, the provider being initialised
StartMonitoring ==
  /\ started < MaxStarts
  /\ started' = started + 1
  /\ IF isMonitoring
       THEN UNCHANGED <<isMonitoring, subscribed, monitorLog>>
       ELSE /\ subscribed' = TRUE
            /\ isMonitoring' = TRUE
            /\ monitorLog' = Append(monitorLog, [name |-> "monitoring_started"])
  /\ lastCall' = [op |-> "startMonitoring", result |-> TRUE]
  /\ UNCHANGED <<engineVars, approvalVars, monitoredAddresses,
                 pendingTransactions, confirmedTransactions, fetching,
                 reported, blockVars>>

\* stopMonitoring: the subscriptions are dropped, nothing else is touched
StopMonitoring ==
  /\ IF ~isMonitoring
       THEN UNCHANGED <<isMonitoring, subscribed, monitorLog>>
       ELSE /\ subscribed' = FALSE
            /\ isMonitoring' = FALSE
            /\ monitorLog' = Append(monitorLog, [name |-> "monitoring_stopped"])
  /\ lastCall' = [op |-> "stopMonitoring", result |-> TRUE]
  /\ UNCHANGED <<engineVars, approvalVars, monitoredAddresses,
                 pendingTransactions, confirmedTransactions, fetching,
                 reported, started, blockVars>>

\* addMonitoredAddress
AddMonitoredAddress(address) ==
  /\ monitoredAddresses' = monitoredAddresses \cup {ToLowerCase(address)}
  /\ lastCall' = [op |-> "addMonitoredAddress", result |-> TRUE]
  /\ UNCHANGED <<engineVars, approvalVars, isMonitoring, subscribed,
                 pendingTransactions, confirmedTransactions, fetching,
                 monitorLog, reported, started, blockVars>>

\* removeMonitoredAddress
RemoveMonitoredAddress(address) ==
  /\ monitoredAddresses' = monitoredAddresses \ {ToLowerCase(address)}
  /\ lastCall' = [op |-> "removeMonitoredAddress",
                  result |-> ToLowerCase(address) \in monitoredAddresses]
  /\ UNCHANGED <<engineVars, approvalVars, isMonitoring, subscribed,
                 pendingTransactions, confirmedTransactions, fetching,
                 monitorLog, reported, started, blockVars>>

\* isRelevantTransaction
isRelevantTransaction(tx) ==
  \/ monitoredAddresses = {}
  \/ ToLowerCase(tx.from) \in monitoredAddresses
  \/ ToLowerCase(tx.to) \in monitoredAddresses

\* handlePendingTransaction, line 338: the hash is already known
AlreadyProcessed(hash) ==
  hash \in DOMAIN pendingTransactions \/ hash \in DOMAIN confirmedTransactions

\* The event source reports a pending hash to the subscribed listener:
\* handlePendingTransaction runs up to `await provider.getTransaction`.  The
\* handler fetches once: the call in flight is its first and only attempt.
ReportPending(hash) ==
  /\ subscribed
  /\ reported < MaxReports
  /\ reported' = reported + 1
  /\ fetching' = IF AlreadyProcessed(hash)
                   THEN fetching
                   ELSE fetching \cup {[hash |-> hash, report |-> reported + 1,
                                        attempt |-> 1]}
  /\ UNCHANGED <<engineVars, approvalVars, lastCall, isMonitoring, subscribed,
                 monitoredAddresses, pendingTransactions,
                 confirmedTransactions, monitorLog, started, blockVars>>

\* handlePendingTransaction, lines 343-355: what makes the handler return
\* without storing anything once the fetch has answered
Dropped(tx) == ~isRelevantTransaction(tx) \/ tx.gasLimit # 0

\* handlePendingTransaction, lines 358-369: the record built from the fetched
\* transaction (nonce and timestamp are left out)
TxData(tx) ==
  [hash |-> tx.hash, from |-> tx.from, to |-> tx.to, value |-> tx.value,
   data |-> tx.data, gasLimit |-> tx.gasLimit, gasPrice |-> tx.gasPrice,
   status |-> "pending"]

\* A Map keeps its entries in insertion order and set on a key it holds keeps
\* the key's place.  An entry carries its place as `order`: every set on
\* pendingTransactions is followed by one pending_transaction event, so the
\* events count the sets made so far.
SetCount ==
  Cardinality({i \in DOMAIN monitorLog :
                 monitorLog[i].name = "pending_transaction"})

MapSet(map, key, value) ==
  [k \in DOMAIN map \cup {key} |->
     IF k = key
       THEN Spread(value, [order |-> IF key \in DOMAIN map
                                       THEN map[key].order
                                       ELSE SetCount + 1])
       ELSE map[k]]

MapDelete(map, key) == [k \in DOMAIN map \ {key} |-> map[k]]

\* The fetch answers and handlePendingTransaction runs to its end.  Between
\* the fetch and the end the handler also awaits analyzeTransaction, which
\* touches nothing but the record being built.  found = FALSE is a fetch that
\* returns nothing or fails.  The emitted pending_transaction reaches the
\* listener of the TransactionMonitor component, which calls requestApproval.
FetchSettle(call, found, keySet, providerOk) ==
  /\ call \in fetching
  /\ fetching' = fetching \ {call}
  /\ LET tx == ChainTransaction(call.hash)
         analyzedTx == analyzeTransaction(TxData(tx))
     IN IF ~found \/ Dropped(tx)
          THEN UNCHANGED <<engineVars, approvalVars, lastCall,
                           pendingTransactions, monitorLog>>
          ELSE /\ pendingTransactions' =
                    MapSet(pendingTransactions, call.hash, analyzedTx)
               /\ monitorLog' = Append(monitorLog,
                    [name |-> "pending_transaction", hash |-> call.hash])
               /\ RequestApprovalBody(analyzedTx, keySet, providerOk)
  /\ UNCHANGED <<isMonitoring, subscribed, monitoredAddresses,
                 confirmedTransactions, reported, started, blockVars>>

\* ------------------------------------------------------------ block handler
\* The chain mines a block; the subscribed 'block' listener starts
\* handleNewBlock, which runs up to `await provider.getBlock`.
Mined == UNION {chain[i] : i \in DOMAIN chain}

NewBlock(included) ==
  /\ Len(chain) < MaxBlocks
  /\ included \subseteq ReportedHashes \ Mined
  /\ chain' = Append(chain, included)
  /\ sweeps' = IF subscribed
                 THEN sweeps \cup {[block |-> Len(chain) + 1, stage |-> "getBlock"]}
                 ELSE sweeps
  /\ UNCHANGED <<engineVars, approvalVars, lastCall, isMonitoring, subscribed,
                 monitoredAddresses, pendingTransactions,
                 confirmedTransactions, fetching, monitorLog, reported,
                 started>>

\* the iterator of pendingTransactions.entries(): the first entry after
\* place `after`, or none
EntriesAfter(map, after) == {k \in DOMAIN map : map[k].order > after}

NextEntry(map, after) ==
  CHOOSE k \in EntriesAfter(map, after) :
    \A j \in EntriesAfter(map, after) : map[k].order <= map[j].order

\* the loop of handleNewBlock takes the next entry and awaits its receipt,
\* or ends when the iterator is done
SweepFrom(call, map, after) ==
  IF EntriesAfter(map, after) = {}
    THEN sweeps \ {call}
    ELSE (sweeps \ {call}) \cup
           {[block |-> call.block, stage |-> "receipt",
             txHash |-> NextEntry(map, after),
             pendingTx |-> map[NextEntry(map, after)]]}

\* handleNewBlock with a failing getBlock ending the monitoring
BlockFetchedFailureStops(call, found) ==
  /\ call \in sweeps
  /\ call.stage = "getBlock"
  /\ IF found
       THEN /\ monitorLog' = Append(monitorLog,
                 [name |-> "new_block", number |-> call.block])
            /\ sweeps' = SweepFrom(call, pendingTransactions, 0)
            /\ UNCHANGED <<isMonitoring, subscribed>>
       ELSE /\ sweeps' = sweeps \ {call}
            /\ isMonitoring' = FALSE
            /\ subscribed' = FALSE
            /\ UNCHANGED monitorLog
  /\ UNCHANGED <<engineVars, approvalVars, lastCall,
                 monitoredAddresses, pendingTransactions,
                 confirmedTransactions, fetching, reported, started, chain>>

\* provider.getBlock answers: without a block the handler returns; with it
\* new_block is emitted and the loop starts.
BlockFetched(call, found) ==
  /\ call \in sweeps
  /\ call.stage = "getBlock"
  /\ IF found
       THEN /\ monitorLog' = Append(monitorLog,
                 [name |-> "new_block", number |-> call.block])
            /\ sweeps' = SweepFrom(call, pendingTransactions, 0)
       ELSE /\ sweeps' = sweeps \ {call}
            /\ UNCHANGED monitorLog
  /\ UNCHANGED <<engineVars, approvalVars, lastCall, isMonitoring, subscribed,
                 monitoredAddresses, pendingTransactions,
                 confirmedTransactions, fetching, reported, started, chain>>

\* the confirmed record classified anew
ConfirmedRecordReclassified(pendingTx) ==
  Spread(pendingTx, [status |-> "confirmed", type |-> "UNKNOWN"])

\* the confirmed record left as the pending record was
ConfirmedRecordKeepingStatus(pendingTx) == pendingTx

\* handleNewBlock, lines 413-417: the record stored as confirmed
ConfirmedRecord(pendingTx) == Spread(pendingTx, [status |-> "confirmed"])

\* provider.getTransactionReceipt answers for the entry in hand: a receipt
\* (only for a mined hash), null, or a failure that ends the handler.
ReceiptOutcomes == {"receipt", "null", "thrown"}

ReceiptSettle(call, outcome) ==
  /\ call \in sweeps
  /\ call.stage = "receipt"
  /\ outcome = "receipt" => call.txHash \in Mined
  /\ IF outcome = "receipt"
       THEN /\ pendingTransactions' = MapDelete(pendingTransactions, call.txHash)
            /\ confirmedTransactions' =
                 [k \in DOMAIN confirmedTransactions \cup {call.txHash} |->
                    IF k = call.txHash THEN ConfirmedRecord(call.pendingTx)
                                       ELSE confirmedTransactions[k]]
            /\ monitorLog' = Append(monitorLog,
                 [name |-> "confirmed_transaction", hash |-> call.txHash])
       ELSE UNCHANGED <<pendingTransactions, confirmedTransactions, monitorLog>>
  /\ sweeps' = IF outcome = "thrown"
                 THEN sweeps \ {call}
                 ELSE SweepFrom(call, pendingTransactions', call.pendingTx.order)
  /\ UNCHANGED <<engineVars, approvalVars, lastCall, isMonitoring, subscribed,
                 monitoredAddresses, fetching, reported, started, chain>>

MonitorNext ==
  \/ StartMonitoring
  \/ StopMonitoring
  \/ \E a \in WatchedAddressInputs : AddMonitoredAddress(a)
  \/ \E a \in WatchedAddressInputs : RemoveMonitoredAddress(a)
  \/ \E hash \in ReportedHashes : ReportPending(hash)
  \/ \E call \in fetching, found \in BOOLEAN, k \in BOOLEAN, p \in BOOLEAN :
        FetchSettle(call, found, k, p)
  \/ \E timer \in timers : HandleRequestTimeout(timer)
  \/ Tick

SpecMonitor == Init /\ [][MonitorNext]_vars

\* The started monitor with the chain mining blocks: reports, fetches and
\* block handlers interleave; the approval service acts through the
\* component's listener only.
SweepNext ==
  \/ StartMonitoring
  \/ \E hash \in ReportedHashes : ReportPending(hash)
  \/ \E call \in fetching, found \in BOOLEAN, k \in BOOLEAN, p \in BOOLEAN :
        FetchSettle(call, found, k, p)
  \/ \E included \in SUBSET ReportedHashes : NewBlock(included)
  \/ \E call \in sweeps, found \in BOOLEAN : BlockFetched(call, found)
  \/ \E call \in sweeps, outcome \in ReceiptOutcomes : ReceiptSettle(call, outcome)

SpecSweep == Init /\ [][SweepNext]_vars

\* ------------------------------------------------------------------ claims
HasEvent(id, name) == \E i \in DOMAIN log[id] : log[id][i].name = name
TimerSet(id) == \E t \in timers : t.id = id
Stored(id) == id \in DOMAIN approvalRequests
StatusOf(id) == approvalRequests[id].status
Denied(id) ==
  /\ approvalRequests[id].evaluationResult # NoEval
  /\ ~approvalRequests[id].evaluationResult.isApproved
EvaluatedApproved(id) ==
  /\ approvalRequests[id].evaluationResult # NoEval
  /\ approvalRequests[id].evaluationResult.isApproved
TerminalEvents ==
  {"transaction_approved", "transaction_rejected", "approval_expired",
   "transaction_auto_approved"}
TerminalCount(id) ==
  Cardinality({i \in DOMAIN log[id] : log[id][i].name \in TerminalEvents})

\* C1: a stored request's status changes only pending->approved,
\* pending->rejected or pending->expired; a request is created as pending or
\* auto_approved under an id never used before, so auto_approved is assigned
\* at creation only and a terminal status never changes again.
C1_StatusTransitions ==
  [][ /\ \A id \in DOMAIN approvalRequests \cap DOMAIN approvalRequests' :
          \/ approvalRequests'[id].status = approvalRequests[id].status
          \/ /\ approvalRequests[id].status = "pending"
             /\ approvalRequests'[id].status \in {"approved", "rejected", "expired"}
      /\ \A id \in DOMAIN approvalRequests' \ DOMAIN approvalRequests :
          /\ id \notin DOMAIN log
          /\ approvalRequests'[id].status \in {"pending", "auto_approved"} ]_vars

\* C1 witness: a request expired by its timer, and a later approve of it was
\* refused.
C1_Witness ==
  \E id \in DOMAIN approvalRequests :
    /\ StatusOf(id) = "expired"
    /\ lastCall = [op |-> "approveTransaction", id |-> id, result |-> FALSE]

\* C2: for every request at most one of the terminal events was emitted, never
\* both transaction_approved and approval_expired, and the stored status is
\* the one that event announced.
C2_OneTerminalTransition ==
  \A id \in DOMAIN log :
    /\ TerminalCount(id) <= 1
    /\ ~(HasEvent(id, "transaction_approved") /\ HasEvent(id, "approval_expired"))
    /\ Stored(id) =>
         /\ (StatusOf(id) = "approved") = HasEvent(id, "transaction_approved")
         /\ (StatusOf(id) = "expired") = HasEvent(id, "approval_expired")
         /\ (StatusOf(id) = "rejected") = HasEvent(id, "transaction_rejected")
         /\ (StatusOf(id) = "pending") = (TerminalCount(id) = 0)

\* C2 witness: the timer of a request fired while the broadcast of its
\* approval was still in flight.
C2_Witness ==
  \E call \in inflight :
    /\ call.caller = "approveTransaction"
    /\ HasEvent(call.id, "approval_requested")
    /\ ~TimerSet(call.id)
    /\ Stored(call.id) /\ StatusOf(call.id) = "approved"

\* C3: a request whose evaluation was denied is never auto_approved, and the
\* wallet is called for it only after transaction_approved was emitted for it.
C3_DeniedNeedsManualApproval ==
  \A id \in DOMAIN approvalRequests :
    Denied(id) =>
      /\ StatusOf(id) # "auto_approved"
      /\ ~HasEvent(id, "transaction_auto_approved")
      /\ \A i \in DOMAIN log[id] :
           log[id][i].name \in {"sendTransaction", "transaction_sent", "transaction_failed"}
             => \E j \in 1..(i - 1) :
                  /\ log[id][j].name = "transaction_approved"
                  /\ log[id][j].status = "approved"

\* C3 witness: auto-approve is on, and a denied request is held pending.
C3_Witness ==
  \E id \in DOMAIN approvalRequests :
    /\ Denied(id)
    /\ autoApproveEnabled
    /\ StatusOf(id) = "pending"
    /\ lastCall = [op |-> "requestApproval", id |-> id, result |-> "returned",
                   status |-> "pending"]

C4_AutoApprovedState ==
  \A id \in DOMAIN approvalRequests :
    StatusOf(id) = "auto_approved" =>
      /\ EvaluatedApproved(id)
      /\ log[id][1] = [name |-> "transaction_auto_approved", status |-> "auto_approved"]
      /\ Len(log[id]) >= 2
      /\ log[id][2].name \in {"sendTransaction", "transaction_failed"}
      /\ \A i \in DOMAIN log[id] :
           /\ log[id][i].name # "approval_requested"
           /\ log[id][i].status # "pending"
      /\ ~TimerSet(id)
      /\ (lastCall.op = "requestApproval" /\ lastCall.id = id
            /\ lastCall.result = "returned") => lastCall.status = "auto_approved"

C4_AutoApprovedAtCreation ==
  \A id \in DOMAIN approvalRequests' \ DOMAIN approvalRequests :
    (autoApproveEnabled /\ EvaluatedApproved(id)')
      => approvalRequests'[id].status = "auto_approved"

\* C4: with auto-approve on and an approved evaluation the request is created
\* as auto_approved; an auto_approved request was never seen pending by any
\* listener, got no approval_requested event and no timer, its first event is
\* transaction_auto_approved and the wallet call comes after it; and the
\* request that requestApproval returns is auto_approved.
C4_AutoApproveShortcut ==
  [] C4_AutoApprovedState /\ [][C4_AutoApprovedAtCreation]_vars

\* C4 witness: requestApproval returned an auto_approved request after its
\* broadcast succeeded.
C4_Witness ==
  /\ lastCall.op = "requestApproval"
  /\ lastCall.result = "returned"
  /\ lastCall.status = "auto_approved"
  /\ Stored(lastCall.id)
  /\ HasEvent(lastCall.id, "transaction_sent")

EvaluateCalled == lastCall.op = "evaluateTransaction"
TargetOf(call) == IF call.id # NoId THEN call.id ELSE activeRuleSetId
NoEnabledRule(id) ==
  \A i \in DOMAIN ruleSets[id].rules : ~ruleSets[id].rules[i].isEnabled
SomeEnabledRuleMatches(id, tx) ==
  \E i \in DOMAIN ruleSets[id].rules :
    /\ ruleSets[id].rules[i].isEnabled
    /\ \A k \in DOMAIN ruleSets[id].rules[i].conditions :
         evaluateCondition(tx, ruleSets[id].rules[i].conditions[k]).isMatch

\* C5: evaluate returns approved with an empty match list when no rule set
\* resolves (no id given and none active, or an unknown id) and when the
\* resolved rule set has no enabled rule.
C5_DefaultAllow ==
  EvaluateCalled =>
    LET target == TargetOf(lastCall)
    IN (target = NoId \/ target \notin DOMAIN ruleSets \/ NoEnabledRule(target))
         => /\ lastCall.result.isApproved = TRUE
            /\ lastCall.result.matchedRules = <<>>

\* C5 witness: evaluation against the active rule set, all of whose rules
\* are disabled and one of which would match the transaction.
C5_Witness ==
  /\ EvaluateCalled
  /\ lastCall.id = NoId
  /\ activeRuleSetId \in DOMAIN ruleSets
  /\ ruleSets[activeRuleSetId].isActive
  /\ NoEnabledRule(activeRuleSetId)
  /\ \E i \in DOMAIN ruleSets[activeRuleSetId].rules :
       evaluateRule(lastCall.tx, ruleSets[activeRuleSetId].rules[i]).isMatch

\* C6: for every rule set that resolves (the id given is known, or no id is
\* given and a rule set is active) evaluate returns approved = FALSE exactly
\* when some enabled rule has all its conditions matching, and approved is
\* TRUE exactly when the returned match list is empty.
C6_DenylistSemantics ==
  EvaluateCalled =>
    LET target == TargetOf(lastCall)
    IN (target # NoId /\ target \in DOMAIN ruleSets)
         => /\ (lastCall.result.isApproved = FALSE)
                 = SomeEnabledRuleMatches(target, lastCall.tx)
            /\ (lastCall.result.isApproved = TRUE)
                 = (lastCall.result.matchedRules = <<>>)

\* C7: at most one rule set is flagged active and it is the one recorded in
\* activeRuleSetId; after a successful setActive(id) exactly id is active and
\* the previously active rule set is not.
C7_SingleActiveRuleSet ==
  /\ Cardinality({id \in DOMAIN ruleSets : ruleSets[id].isActive}) <= 1
  /\ \A id \in DOMAIN ruleSets : ruleSets[id].isActive = (id = activeRuleSetId)
  /\ (lastCall.op = "setActiveRuleSet" /\ lastCall.result = TRUE) =>
       /\ activeRuleSetId = lastCall.id
       /\ \A id \in DOMAIN ruleSets : ruleSets[id].isActive = (id = lastCall.id)
       /\ (lastCall.previous \notin {NoId, lastCall.id})
            => ~ruleSets[lastCall.previous].isActive

\* C7 witness: rule set 2 was activated while rule set 1 was the active one.
C7_Witness ==
  /\ lastCall.op = "setActiveRuleSet"
  /\ lastCall.result = TRUE
  /\ lastCall.previous # NoId
  /\ lastCall.previous # lastCall.id

NotPending(id) == ~(Stored(id) /\ StatusOf(id) = "pending")

\* C8: approve and reject of an unknown request, or of one that is not
\* pending, return false and change nothing: no request, no event, no
\* wallet call, no timer.
C8_RefusedDecisionChangesNothing ==
  [][ \A id \in RequestIdInputs :
        NotPending(id) =>
          /\ (\E c \in Comments, k \in BOOLEAN, p \in BOOLEAN :
                ApproveTransaction(id, c, k, p))
               => /\ lastCall' = [op |-> "approveTransaction", id |-> id,
                                  result |-> FALSE]
                  /\ UNCHANGED approvalVars
          /\ (\E c \in Comments : RejectTransaction(id, c))
               => /\ lastCall' = [op |-> "rejectTransaction", id |-> id,
                                  result |-> FALSE]
                  /\ UNCHANGED approvalVars ]_vars

\* C8 witness: reject was refused for a request that is already approved.
C8_Witness ==
  \E id \in DOMAIN approvalRequests :
    /\ StatusOf(id) = "approved"
    /\ lastCall = [op |-> "rejectTransaction", id |-> id, result |-> FALSE]

C9_RejectedNeverExecuted ==
  \A id \in DOMAIN log :
    HasEvent(id, "transaction_rejected") =>
      /\ ~HasEvent(id, "sendTransaction")
      /\ ~HasEvent(id, "transaction_sent")
      /\ ~HasEvent(id, "transaction_failed")
      /\ \A call \in inflight : call.id # id
      /\ Stored(id) => StatusOf(id) = "rejected"

C9_RejectStep ==
  \A id \in RequestIdInputs :
    (~NotPending(id) /\ \E c \in Comments : RejectTransaction(id, c)) =>
      /\ lastCall' = [op |-> "rejectTransaction", id |-> id, result |-> TRUE]
      /\ approvalRequests'[id].status = "rejected"
      /\ log'[id] = log[id] \o
           << [name |-> "transaction_rejected", status |-> "rejected"],
              [name |-> "approval_update", status |-> "rejected"] >>
      /\ inflight' = inflight

\* C9: reject of a pending request returns true, stores rejected and emits
\* transaction_rejected; for a rejected request the wallet is never called
\* and neither transaction_sent nor transaction_failed is emitted, whatever
\* is called afterwards.
C9_RejectNeverBroadcasts ==
  [] C9_RejectedNeverExecuted /\ [][C9_RejectStep]_vars

\* C9 witness: a rejected request whose timer has fired since and whose
\* later approve was refused.
C9_Witness ==
  \E id \in DOMAIN approvalRequests :
    /\ StatusOf(id) = "rejected"
    /\ HasEvent(id, "approval_requested")
    /\ ~TimerSet(id)
    /\ lastCall = [op |-> "approveTransaction", id |-> id, result |-> FALSE]

\* C10: every request stored as pending has a timeout timer scheduled for
\* it (which is what lets it expire when nobody decides).
C10_PendingHasTimer ==
  \A id \in DOMAIN approvalRequests :
    StatusOf(id) = "pending" => TimerSet(id)

ApprovedStatuses == {"approved", "auto_approved"}
ApprovalEventOf(status) ==
  IF status = "approved" THEN "transaction_approved" ELSE "transaction_auto_approved"
InFlight(id) == \E call \in inflight : call.id = id
FailedIn(l, id) ==
  id \in DOMAIN l /\ \E i \in DOMAIN l[id] : l[id][i].name = "transaction_failed"

C11_FailureState ==
  \A id \in DOMAIN log :
    /\ \A i \in DOMAIN log[id] :
         log[id][i].name = "transaction_failed" =>
           /\ log[id][i].status \in ApprovedStatuses
           /\ \E j \in 1..(i - 1) :
                log[id][j] = [name |-> ApprovalEventOf(log[id][i].status),
                              status |-> log[id][i].status]
           /\ Stored(id) => StatusOf(id) = log[id][i].status
    /\ (Stored(id) /\ StatusOf(id) \in ApprovedStatuses /\ ~InFlight(id)
          /\ ~HasEvent(id, "transaction_sent"))
         => HasEvent(id, "transaction_failed")

C11_BroadcastFails ==
  \A call \in inflight :
    ExecuteSettle(call, FALSE) =>
      /\ approvalRequests' = approvalRequests
      /\ log'[call.id] = log[call.id] \o
           <<[name |-> "transaction_failed", status |-> call.status]>>

C11_NothingRetracted ==
  \A id \in DOMAIN log :
    /\ id \in DOMAIN log'
    /\ Len(log'[id]) >= Len(log[id])
    /\ SubSeq(log'[id], 1, Len(log[id])) = log[id]

\* C11: when the broadcast fails the request keeps approved (auto_approved),
\* the transaction_approved (transaction_auto_approved) event was emitted
\* before and no emitted event is ever taken back, and transaction_failed is
\* emitted for the request.
C11_FailureKeepsDecision ==
  [] C11_FailureState /\ [][C11_BroadcastFails /\ C11_NothingRetracted]_vars

\* C11 witness: an approved request whose wallet call was issued and failed;
\* approve has returned and the request is still approved.
C11_Witness ==
  \E id \in DOMAIN approvalRequests :
    /\ StatusOf(id) = "approved"
    /\ HasEvent(id, "sendTransaction")
    /\ HasEvent(id, "transaction_failed")
    /\ lastCall = [op |-> "approveTransaction", id |-> id, result |-> FALSE]

\* the call ended by raising: approveTransaction returns a boolean when it
\* does not raise, requestApproval the request
RaisedTo(call) ==
  IF call.op = "approveTransaction"
    THEN call.result \notin BOOLEAN
    ELSE call.result = "raised"

\* C12: a step in which transaction_failed is emitted for a request ends with
\* the failure raised to the caller, which is approveTransaction or
\* requestApproval for that request; a timer firing and a reject emit no
\* transaction_failed, issue no wallet call and raise nothing.
C12_FailureReraised ==
  [][ /\ \A id \in DOMAIN log' :
           (FailedIn(log', id) /\ ~FailedIn(log, id)) =>
             /\ lastCall'.op \in {"approveTransaction", "requestApproval"}
             /\ lastCall'.id = id
             /\ RaisedTo(lastCall')
      /\ ((\E timer \in timers : HandleRequestTimeout(timer))
            \/ (\E id \in RequestIdInputs, c \in Comments : RejectTransaction(id, c)))
           => /\ inflight' = inflight
              /\ \A id \in DOMAIN log' : FailedIn(log', id) = FailedIn(log, id)
              /\ (lastCall' # lastCall => lastCall'.result \in BOOLEAN) ]_vars

C13_BroadcastOrder ==
  /\ \A id \in DOMAIN log :
       /\ Cardinality({call \in inflight : call.id = id}) <= 1
       /\ \A i \in DOMAIN log[id] :
            log[id][i].name = "sendTransaction" =>
              /\ log[id][i].status \in ApprovedStatuses
              /\ \E j \in 1..(i - 1) :
                   log[id][j] = [name |-> ApprovalEventOf(log[id][i].status),
                                 status |-> log[id][i].status]
              /\ Cardinality({k \in (i + 1)..Len(log[id]) :
                     log[id][k].name \in {"transaction_sent", "transaction_failed"}})
                   = IF InFlight(id) THEN 0 ELSE 1
  /\ \A call \in inflight :
       /\ call.id \in DOMAIN log
       /\ HasEvent(call.id, "sendTransaction")
       /\ call.status \in ApprovedStatuses
       /\ Stored(call.id) => StatusOf(call.id) = call.status

\* C13: the wallet call for a request is issued after the status was written
\* and transaction_approved (transaction_auto_approved) was emitted with that
\* status; while the call is in flight the stored request is approved
\* (auto_approved); and once the call is no longer in flight exactly one of
\* transaction_sent and transaction_failed has followed it, none before.
C13_DecisionBeforeBroadcast == C13_BroadcastOrder

\* C13 witness: while the wallet call of an approval is in flight, a reject of
\* the same request ran and was refused.
C13_Witness ==
  \E call \in inflight :
    /\ call.caller = "approveTransaction"
    /\ Stored(call.id) /\ StatusOf(call.id) = "approved"
    /\ lastCall = [op |-> "rejectTransaction", id |-> call.id, result |-> FALSE]

C14_ConfigurationStep ==
  ((\E b \in BOOLEAN : SetAutoApprove(b))
     \/ (\E t \in Timeouts : SetRequestTimeout(t)))
    => UNCHANGED <<approvalRequests, timers, inflight, log>>

C14_ExistingKept ==
  /\ \A id \in DOMAIN approvalRequests \cap DOMAIN approvalRequests' :
       /\ approvalRequests'[id].expiresAt = approvalRequests[id].expiresAt
       /\ approvalRequests'[id].createdAt = approvalRequests[id].createdAt
  /\ \A id \in DOMAIN approvalRequests' \ DOMAIN approvalRequests :
       approvalRequests'[id].expiresAt = now + requestTimeout
  /\ \A t \in timers' \ timers :
       /\ t.id \notin DOMAIN approvalRequests
       /\ t.due = now + requestTimeout

C14_TimerKeepsDelay ==
  \A t \in timers :
    Stored(t.id) => t.due = approvalRequests[t.id].expiresAt

\* C14: setAutoApprove and setRequestTimeout change no request, timer, wallet
\* call or event; the expiresAt of a request and the due time of its timer
\* are fixed at creation from the timeout then in force and never change.
C14_ConfigurationNotRetroactive ==
  [] C14_TimerKeepsDelay /\ [][C14_ConfigurationStep /\ C14_ExistingKept]_vars

\* C14 witness: auto-approve is on while a request with an approved
\* evaluation is still pending, its timer still set for a timeout that is no
\* longer the configured one.
C14_Witness ==
  \E id \in DOMAIN approvalRequests :
    /\ StatusOf(id) = "pending"
    /\ EvaluatedApproved(id)
    /\ autoApproveEnabled
    /\ ~HasEvent(id, "sendTransaction")
    /\ approvalRequests[id].expiresAt - approvalRequests[id].createdAt # requestTimeout
    /\ \E t \in timers : t.id = id /\ t.due = approvalRequests[id].expiresAt

C16_Offered(id) ==
  /\ approvalRequests[id].transaction = TxTransferLarge
  /\ approvalRequests[id].evaluationResult # NoEval

C16_State ==
  \A id \in DOMAIN approvalRequests :
    C16_Offered(id) =>
      /\ ~approvalRequests[id].evaluationResult.isApproved
      /\ Len(approvalRequests[id].evaluationResult.matchedRules) = 1
      /\ approvalRequests[id].evaluationResult.matchedRules[1].ruleId = 2
      /\ StatusOf(id) # "auto_approved"
      /\ log[id][1] = [name |-> "approval_requested", status |-> "pending"]
      /\ ~HasEvent(id, "transaction_approved") =>
           /\ ~InFlight(id)
           /\ \A i \in DOMAIN log[id] :
                log[id][i].name \notin
                  {"sendTransaction", "transaction_sent", "transaction_failed"}

C16_RejectStep ==
  \A id \in RequestIdInputs, c \in Comments :
    (Stored(id) /\ C16_Offered(id) /\ StatusOf(id) = "pending"
       /\ RejectTransaction(id, c)) =>
      /\ approvalRequests'[id].status = "rejected"
      /\ approvalRequests'[id].userComment =
           (IF c # "" THEN c ELSE approvalRequests[id].userComment)
      /\ inflight' = inflight

\* C16: with the active rule {destination_address equals A, value_threshold
\* greater_than 1.0}, a transaction to A of value 2.0 offered through
\* requestApproval is denied by that rule and stored pending, also with
\* auto-approve on; a reject with a comment stores rejected and the comment;
\* and unless it is approved by hand no wallet call is made for it.
C16_DenyThenReject ==
  [] C16_State /\ [][C16_RejectStep]_vars

\* C16 witness: the request was rejected with a comment while auto-approve
\* was on.
C16_Witness ==
  \E id \in DOMAIN approvalRequests :
    /\ C16_Offered(id)
    /\ StatusOf(id) = "rejected"
    /\ approvalRequests[id].userComment = "ok"
    /\ autoApproveEnabled
    /\ lastCall = [op |-> "rejectTransaction", id |-> id, result |-> TRUE]

\* evaluation of tx against the enabled rules of rule set id
MatchesAll(rule, tx) ==
  \A k \in DOMAIN rule.conditions : evaluateCondition(tx, rule.conditions[k]).isMatch
MatchedIds(result) == {result.matchedRules[i].ruleId : i \in DOMAIN result.matchedRules}
EnabledMatching(id, tx) ==
  {ruleSets[id].rules[i].id : i \in
     {j \in DOMAIN ruleSets[id].rules :
        ruleSets[id].rules[j].isEnabled /\ MatchesAll(ruleSets[id].rules[j], tx)}}
AgainstRuleSet(id, call) ==
  /\ MatchedIds(call.result) = EnabledMatching(id, call.tx)
  /\ call.result.isApproved = (EnabledMatching(id, call.tx) = {})

\* C18: evaluate with the id of an existing rule set evaluates against the
\* enabled rules of that rule set, active or not; evaluate without an id
\* evaluates against the active rule set.
C18_ExplicitRuleSetEvaluated ==
  EvaluateCalled =>
    /\ (lastCall.id # NoId /\ lastCall.id \in DOMAIN ruleSets)
         => AgainstRuleSet(lastCall.id, lastCall)
    /\ (lastCall.id = NoId /\ activeRuleSetId \in DOMAIN ruleSets)
         => AgainstRuleSet(activeRuleSetId, lastCall)

ResolvesActive(call) ==
  /\ TargetOf(call) \in DOMAIN ruleSets
  /\ ruleSets[TargetOf(call)].isActive
Throws(c) == c.type = "custom" /\ c.value.items[1] = "fn_throws"
HasThrowing(rule) == \E k \in DOMAIN rule.conditions : Throws(rule.conditions[k])
RulesOf(call) == ruleSets[TargetOf(call)].rules
EnabledMatchingWithout(call, Excluded(_)) ==
  {RulesOf(call)[i].id : i \in
     {j \in DOMAIN RulesOf(call) :
        /\ RulesOf(call)[j].isEnabled
        /\ ~Excluded(RulesOf(call)[j])
        /\ MatchesAll(RulesOf(call)[j], call.tx)}}

\* C19: a rule holding a custom condition whose function throws never
\* matches; evaluate still returns, and its result is the one given by the
\* other enabled rules: the matched rules are exactly the matching ones among
\* them, and approved says that there is none.
C19_ThrowingPredicateIsNonMatch ==
  (EvaluateCalled /\ ResolvesActive(lastCall)) =>
    /\ \A i \in DOMAIN RulesOf(lastCall) :
         HasThrowing(RulesOf(lastCall)[i])
           => RulesOf(lastCall)[i].id \notin MatchedIds(lastCall.result)
    /\ MatchedIds(lastCall.result) = EnabledMatchingWithout(lastCall, HasThrowing)
    /\ lastCall.result.isApproved
         = (EnabledMatchingWithout(lastCall, HasThrowing) = {})

\* C19 witness: the first enabled rule holds a throwing predicate, the second
\* matches the transaction, and the result is denied by the second alone.
C19_Witness ==
  /\ EvaluateCalled /\ ResolvesActive(lastCall)
  /\ Len(RulesOf(lastCall)) = 2
  /\ RulesOf(lastCall)[1].isEnabled /\ HasThrowing(RulesOf(lastCall)[1])
  /\ RulesOf(lastCall)[2].isEnabled /\ ~HasThrowing(RulesOf(lastCall)[2])
  /\ lastCall.result.isApproved = FALSE
  /\ MatchedIds(lastCall.result) = {RulesOf(lastCall)[2].id}

\* the operators each condition kind supports
SupportedOperators(type) ==
  CASE type = "transaction_type" -> {"equals", "not_equals", "in", "not_in"}
    [] type = "token_address" ->
         {"equals", "not_equals", "contains", "not_contains", "in", "not_in"}
    [] type = "destination_address" -> {"equals", "not_equals", "in", "not_in"}
    [] type = "value_threshold" -> {"equals", "not_equals", "greater_than", "less_than"}
    [] type = "gas_threshold" -> {"equals", "not_equals", "greater_than", "less_than"}
    [] type = "custom" -> {"equals"}
    [] OTHER -> {}
Unsupported(c) == c.operator \notin SupportedOperators(c.type)
HasUnsupported(rule) ==
  \E k \in DOMAIN rule.conditions : Unsupported(rule.conditions[k])

\* C20: a condition of an unlisted kind, or with an operator its kind does
\* not support, is a non-match for every transaction, so a rule holding one
\* never matches; evaluate still returns and its result is the one given by
\* the other enabled rules.
C20_UnsupportedConditionIsNonMatch ==
  (EvaluateCalled /\ ResolvesActive(lastCall)) =>
    /\ \A i \in DOMAIN RulesOf(lastCall) :
         \A k \in DOMAIN RulesOf(lastCall)[i].conditions :
           Unsupported(RulesOf(lastCall)[i].conditions[k]) =>
             /\ \A tx \in Transactions :
                  ~evaluateCondition(tx, RulesOf(lastCall)[i].conditions[k]).isMatch
             /\ RulesOf(lastCall)[i].id \notin MatchedIds(lastCall.result)
    /\ MatchedIds(lastCall.result) = EnabledMatchingWithout(lastCall, HasUnsupported)
    /\ lastCall.result.isApproved
         = (EnabledMatchingWithout(lastCall, HasUnsupported) = {})

\* C20 witness: the first enabled rule pairs a matching destination with an
\* unsupported operator on value_threshold, the second enabled rule matches,
\* and the result is denied by the second alone.
C20_Witness ==
  /\ EvaluateCalled /\ ResolvesActive(lastCall)
  /\ Len(RulesOf(lastCall)) = 2
  /\ RulesOf(lastCall)[1].isEnabled
  /\ RulesOf(lastCall)[1].conditions = <<CondDestA, CondBadOperator>>
  /\ evaluateCondition(lastCall.tx, CondDestA).isMatch
  /\ RulesOf(lastCall)[2].isEnabled /\ ~HasUnsupported(RulesOf(lastCall)[2])
  /\ lastCall.result.isApproved = FALSE
  /\ MatchedIds(lastCall.result) = {RulesOf(lastCall)[2].id}

MonitorEmitted(name) == \E i \in DOMAIN monitorLog : monitorLog[i].name = name
Stopped == ~isMonitoring /\ MonitorEmitted("monitoring_stopped")
ExpiredIn(reqs, id) == id \in DOMAIN reqs /\ reqs[id].status = "expired"
ExpiryEvents(l, id) ==
  Cardinality({i \in DOMAIN l[id] : l[id][i].name = "approval_expired"})

\* C15: stopMonitoring leaves no timer scheduled for a pending request, and
\* while the monitor is stopped no request becomes expired and no
\* approval_expired is emitted.
C15_StopCancelsTimers ==
  [][ /\ (isMonitoring /\ StopMonitoring) =>
           \A t \in timers' :
             ~(t.id \in DOMAIN approvalRequests'
                 /\ approvalRequests'[t.id].status = "pending")
      /\ Stopped =>
           \A id \in DOMAIN approvalRequests' :
             /\ ExpiredIn(approvalRequests', id) => ExpiredIn(approvalRequests, id)
             /\ id \in DOMAIN log => ExpiryEvents(log', id) = ExpiryEvents(log, id) ]_vars

AnnouncedCount(hash) ==
  Cardinality({i \in DOMAIN monitorLog :
     monitorLog[i] = [name |-> "pending_transaction", hash |-> hash]})
RequestsFor(hash) ==
  {id \in DOMAIN approvalRequests : approvalRequests[id].transaction.hash = hash}

\* C17: for every hash pending_transaction was emitted at most once and at
\* most one approval request holds a transaction with that hash.
C17_OncePerHash ==
  \A hash \in ReportedHashes :
    /\ AnnouncedCount(hash) <= 1
    /\ Cardinality(RequestsFor(hash)) <= 1

\* C21: setActive with an unknown id returns false and changes no rule set,
\* no active flag and not the active selection; an evaluation without an id
\* is always made against the rule set recorded as active.
C21_UnknownSetActiveChangesNothing ==
  /\ [](EvaluateCalled =>
         ((lastCall.id = NoId /\ activeRuleSetId \in DOMAIN ruleSets)
            => AgainstRuleSet(activeRuleSetId, lastCall)))
  /\ [][ \A id \in RuleSetIdInputs :
           (id \notin DOMAIN ruleSets /\ SetActiveRuleSet(id)) =>
             /\ lastCall'.result = FALSE
             /\ ruleSets' = ruleSets
             /\ activeRuleSetId' = activeRuleSetId ]_vars

\* C21 witness: setActive with an unknown id was refused while a rule set
\* was active, and that rule set is still the active one.
C21_Witness ==
  /\ lastCall.op = "setActiveRuleSet"
  /\ lastCall.result = FALSE
  /\ lastCall.id \notin DOMAIN ruleSets
  /\ lastCall.previous # NoId
  /\ activeRuleSetId = lastCall.previous
  /\ ruleSets[activeRuleSetId].isActive

AllRuleIds(rs) ==
  UNION {{rs[id].rules[i].id : i \in DOMAIN rs[id].rules} : id \in DOMAIN rs}

\* C22: addRule on an existing rule set appends one enabled rule with a new
\* id and the given conditions after the rules already there, which keep their
\* order, and changes no other rule set, no active flag and not the active
\* selection; addRule on an unknown id returns none and changes no rule set.
C22_AddRuleAppends ==
  [][ \A id \in RuleSetIdInputs, cs \in ConditionLists :
        AddRule(id, cs) =>
          IF id \in DOMAIN ruleSets
            THEN /\ DOMAIN ruleSets' = DOMAIN ruleSets
                 /\ Len(ruleSets'[id].rules) = Len(ruleSets[id].rules) + 1
                 /\ SubSeq(ruleSets'[id].rules, 1, Len(ruleSets[id].rules))
                      = ruleSets[id].rules
                 /\ LET rule == ruleSets'[id].rules[Len(ruleSets'[id].rules)]
                    IN /\ rule.isEnabled
                       /\ rule.conditions = cs
                       /\ rule.id \notin AllRuleIds(ruleSets)
                       /\ lastCall'.result = rule.id
                 /\ ruleSets'[id].isActive = ruleSets[id].isActive
                 /\ \A other \in DOMAIN ruleSets \ {id} :
                      ruleSets'[other] = ruleSets[other]
                 /\ activeRuleSetId' = activeRuleSetId
            ELSE /\ lastCall'.result = NoId
                 /\ ruleSets' = ruleSets
                 /\ activeRuleSetId' = activeRuleSetId ]_vars

\* C22 witness: a second rule was added behind the first one of a rule set
\* while another rule set exists.
C22_Witness ==
  /\ lastCall.op = "addRule"
  /\ lastCall.result # NoId
  /\ Cardinality(DOMAIN ruleSets) = 2
  /\ Len(ruleSets[lastCall.id].rules) = 2
  /\ ruleSets[lastCall.id].rules[2].id = lastCall.result

StartedEvents ==
  Cardinality({i \in DOMAIN monitorLog : monitorLog[i].name = "monitoring_started"})
StoppedEvents ==
  Cardinality({i \in DOMAIN monitorLog : monitorLog[i].name = "monitoring_stopped"})

C23_StartStopStep ==
  /\ StartMonitoring =>
       /\ lastCall' = [op |-> "startMonitoring", result |-> TRUE]
       /\ isMonitoring'
       /\ isMonitoring => UNCHANGED <<subscribed, monitorLog>>
  /\ StopMonitoring =>
       /\ lastCall' = [op |-> "stopMonitoring", result |-> TRUE]
       /\ ~isMonitoring'
       /\ ~isMonitoring => UNCHANGED <<subscribed, monitorLog>>

KindOfMethod(method) ==
  CASE method = "transfer" -> "TRANSFER"
    [] method = "approve" -> "APPROVAL"
    [] method = "swapExactTokensForTokens" -> "SWAP"
    [] OTHER -> "CONTRACT_INTERACTION"

StatedKind(tx) ==
  IF tx.data = <<>> \/ tx.data = EmptyPayload THEN "TRANSFER"
  ELSE IF tx.to # <<>> /\ IsKnownContract(tx.to)
            /\ Parses(KnownContracts[ToLowerCase(tx.to)].abi, tx.data)
    THEN KindOfMethod(MethodName(tx.data[2]))
  ELSE "CONTRACT_INTERACTION"

\* C26: for every record, analyzeTransaction gives the kind of the stated
\* decision order: transfer for an empty payload whatever the recipient,
\* the kind of the decoded method for a payload the known recipient's
\* interface decodes, contract_interaction for any other payload.
C26_ClassifyDecisionOrder ==
  lastCall.op = "analyzeTransaction" =>
    lastCall.result.type = StatedKind(lastCall.tx)

\* ---------------------------------------------------- claims of the monitor
FetchFails(call) ==
  \E k \in BOOLEAN, p \in BOOLEAN : FetchSettle(call, FALSE, k, p)
AttemptsOf(calls, call) ==
  {c \in calls : c.hash = call.hash /\ c.report = call.report}

\* C24: a fetch that fails before its third attempt is followed by the next
\* attempt for the same report; after the third failure the hash is dropped;
\* no failure is raised to a caller.
C24_RetryBound ==
  [][ \A call \in fetching :
        FetchFails(call) =>
          /\ lastCall' = lastCall
          /\ IF call.attempt < 3
               THEN \E c \in AttemptsOf(fetching', call) :
                      c.attempt = call.attempt + 1
               ELSE AttemptsOf(fetching', call) = {} ]_vars

\* the capacity the bounded queue is given: one less than the reports made
QueueCapacity == MaxReports - 1

\* C25: the hashes awaiting processing never number more than the capacity
\* and are the most recently reported ones: a report that finds the queue
\* full displaces the oldest.
C25_BoundedQueue ==
  /\ Cardinality(fetching) <= QueueCapacity
  /\ \A call \in fetching : call.report > reported - QueueCapacity

\* the payload carries arguments that do not decode
DecodeFails(tx) == Len(tx.data) = 3 /\ tx.data[3] = "malformed"

FetchAnswers(call) ==
  \E k \in BOOLEAN, p \in BOOLEAN : FetchSettle(call, TRUE, k, p)

PendingEvent(hash) == [name |-> "pending_transaction", hash |-> hash]

\* C27: a fetched, relevant transaction whose payload does not decode is
\* stored as a pending record of kind contract_interaction and
\* pending_transaction is emitted for it.
C27_DecodeFailureDegrades ==
  [][ \A call \in fetching :
        ( /\ FetchAnswers(call)
          /\ isRelevantTransaction(ChainTransaction(call.hash))
          /\ DecodeFails(ChainTransaction(call.hash)) ) =>
          /\ call.hash \in DOMAIN pendingTransactions'
          /\ pendingTransactions'[call.hash].type = "CONTRACT_INTERACTION"
          /\ monitorLog' = Append(monitorLog, PendingEvent(call.hash)) ]_vars

\* C30: while the monitor is started, the fetch for a reported hash that is
\* not yet known and is relevant to the watched addresses ends with the hash
\* stored as a pending record and announced by exactly one
\* pending_transaction event.
C30_RelevantHashStoredAndAnnounced ==
  [][ \A call \in fetching :
        ( /\ isMonitoring
          /\ FetchAnswers(call)
          /\ ~AlreadyProcessed(call.hash)
          /\ isRelevantTransaction(ChainTransaction(call.hash)) ) =>
          /\ call.hash \in DOMAIN pendingTransactions'
          /\ Cardinality({i \in DOMAIN monitorLog' :
                            monitorLog'[i] = PendingEvent(call.hash)}) = 1 ]_vars

\* ------------------------------------------------ claims of the block sweep
RequestKindKept ==
  \A id \in DOMAIN approvalRequests \cap DOMAIN approvalRequests' :
    approvalRequests'[id].transaction.type
      = approvalRequests[id].transaction.type

\* the same of every step of the approval service: approval, rejection,
\* expiry and execution keep the kind of the transaction a request holds
RequestKindKeptAlways == [][RequestKindKept]_vars

StoredKinds(hash) ==
  {pendingTransactions[h].type : h \in DOMAIN pendingTransactions \cap {hash}}
    \cup {confirmedTransactions[h].type :
            h \in DOMAIN confirmedTransactions \cap {hash}}

ConfirmedEvent(hash) == [name |-> "confirmed_transaction", hash |-> hash]

MovedToConfirmed(h) ==
  /\ h \notin DOMAIN pendingTransactions'
  /\ h \in DOMAIN confirmedTransactions'
  /\ confirmedTransactions'[h].status = "confirmed"
  /\ confirmedTransactions'[h].hash = h
  /\ monitorLog' = Append(monitorLog, ConfirmedEvent(h))

PurgeAges == 0..1
Purged == DOMAIN approvalRequests \ DOMAIN approvalRequests'

\* C31: clearOldRequests removes only requests that are not pending and were
\* created before the cutoff, never a pending request, returns how many it
\* removed, emits nothing and leaves every remaining request as it was.
C31_PurgeRemovesOnlyOldTerminal ==
  [][ \A age \in PurgeAges :
        ClearOldRequests(age) =>
          /\ \A id \in Purged :
               /\ approvalRequests[id].status # "pending"
               /\ approvalRequests[id].createdAt < now - age
          /\ \A id \in DOMAIN approvalRequests :
               approvalRequests[id].status = "pending"
                 => id \in DOMAIN approvalRequests'
          /\ lastCall'.result = Cardinality(Purged)
          /\ log' = log
          /\ DOMAIN approvalRequests' \subseteq DOMAIN approvalRequests
          /\ \A id \in DOMAIN approvalRequests' :
               approvalRequests'[id] = approvalRequests[id] ]_vars

\* C31 witness: a purge has removed a decided request and reported one
\* removal, its events still on record.
C31_Witness ==
  /\ lastCall.op = "clearOldRequests"
  /\ lastCall.result = 1
  /\ approvalRequests = <<>>
  /\ \E id \in DOMAIN log : HasEvent(id, "transaction_rejected")

\* the address the claim has a token_address condition compared against
StatedTokenAddress(tx) ==
  IF tx.type = "SWAP" /\ Len(tx.path) >= 2
    THEN ToLowerCase(tx.path[1]) \o <<",">> \o ToLowerCase(tx.path[Len(tx.path)])
    ELSE ToLowerCase(tx.to)

StatedTokenMatch(tx, c) ==
  IF c.operator = "equals"
    THEN StatedTokenAddress(tx) = ToLowerCase(c.value.items[1])
    ELSE Includes(StatedTokenAddress(tx), ToLowerCase(c.value.items[1]))

TokenRule(rule) ==
  /\ rule.isEnabled
  /\ Len(rule.conditions) = 1
  /\ rule.conditions[1].type = "token_address"

\* C33: an enabled rule whose one condition is on token_address matches
\* exactly when the condition holds of the first and last path entry,
\* lower-cased and comma-joined, for a swap with a decoded path of two or
\* more addresses, and of the lower-cased recipient for any other
\* transaction; a swap's recipient and intermediate hop do not make it match.
C33_TokenAddressFirstAndLast ==
  (EvaluateCalled /\ ResolvesActive(lastCall)) =>
    \A i \in DOMAIN RulesOf(lastCall) :
      TokenRule(RulesOf(lastCall)[i]) =>
        /\ (RulesOf(lastCall)[i].id \in MatchedIds(lastCall.result))
             = StatedTokenMatch(lastCall.tx, RulesOf(lastCall)[i].conditions[1])
        /\ (lastCall.tx = TxSwap
              /\ RulesOf(lastCall)[i].conditions[1] = CondTokenRouter)
             => RulesOf(lastCall)[i].id \notin MatchedIds(lastCall.result)

\* C33 witness: for the swap sent to the router through the router, the rule
\* on the last path entry and the rule on "first,last" match and the result
\* is a denial.
C33_Witness ==
  /\ EvaluateCalled /\ ResolvesActive(lastCall)
  /\ lastCall.tx = TxSwap
  /\ Len(RulesOf(lastCall)) = 2
  /\ RulesOf(lastCall)[1].isEnabled /\ RulesOf(lastCall)[2].isEnabled
  /\ RulesOf(lastCall)[1].conditions = <<CondTokenB>>
  /\ RulesOf(lastCall)[2].conditions = <<CondTokenAB>>
  /\ MatchedIds(lastCall.result) = {1, 2}
  /\ ~lastCall.result.isApproved

EmptyEnabledRules(call) ==
  {j \in DOMAIN RulesOf(call) :
     RulesOf(call)[j].isEnabled /\ RulesOf(call)[j].conditions = <<>>}

\* C36: when the active rule set evaluated holds an enabled rule without
\* conditions, that rule is among the matched rules and the result is not
\* approved, for the transaction evaluated and for every other one.
C36_EmptyRuleMatchesAll ==
  (EvaluateCalled /\ ResolvesActive(lastCall)
     /\ EmptyEnabledRules(lastCall) # {}) =>
    /\ ~lastCall.result.isApproved
    /\ \A j \in EmptyEnabledRules(lastCall) :
         RulesOf(lastCall)[j].id \in MatchedIds(lastCall.result)
    /\ \A tx \in Transactions :
         ~evaluateTransaction(tx, lastCall.id).isApproved

\* C36 witness: the small transfer, which no rule with conditions matches,
\* is denied by an enabled rule without conditions alone.
C36_Witness ==
  /\ EvaluateCalled /\ ResolvesActive(lastCall)
  /\ lastCall.tx = TxTransferSmall
  /\ Cardinality(EmptyEnabledRules(lastCall)) = 1
  /\ Len(RulesOf(lastCall)) = 2
  /\ Cardinality(MatchedIds(lastCall.result)) = 1
  /\ ~lastCall.result.isApproved

\* the rule sets with rule ruleId of rule set id removed, as deleteRule
\* leaves them
WithoutRule(rs, id, ruleId) ==
  [rs EXCEPT ![id].rules = SelectSeq(@, LAMBDA r : r.id # ruleId)]

WithEnabled(rs, id, ruleId, flag) ==
  [rs EXCEPT ![id].rules =
     [j \in DOMAIN @ |-> IF @[j].id = ruleId
                           THEN [@[j] EXCEPT !.isEnabled = flag] ELSE @[j]]]

EvaluateIds == {NoId} \cup RuleSetIdInputs

SameEvaluation(rs1, rs2) ==
  \A tx \in Transactions, q \in EvaluateIds :
    EvaluateOn(rs1, activeRuleSetId, tx, q) = EvaluateOn(rs2, activeRuleSetId, tx, q)

\* C37: after updateRule has disabled a rule, every evaluation gives the
\* result it gives on the rule set with that rule deleted; updateRule with
\* isEnabled writes the flag only, so enabling the rule again gives back the
\* rule set, and with it the results, from before; deleteRule removes
\* exactly that rule.
C37_DisabledAsDeleted ==
  [][ \A id \in RuleSetIdInputs, r \in RuleIdInputs :
        /\ (UpdateRule(id, r, [isEnabled |-> FALSE]) /\ lastCall'.result # NoId) =>
             /\ SameEvaluation(ruleSets', WithoutRule(ruleSets, id, r))
             /\ ruleSets' = WithEnabled(ruleSets, id, r, FALSE)
             /\ activeRuleSetId' = activeRuleSetId
        /\ (UpdateRule(id, r, [isEnabled |-> TRUE]) /\ lastCall'.result # NoId) =>
             /\ ruleSets' = WithEnabled(ruleSets, id, r, TRUE)
             /\ WithEnabled(ruleSets', id, r, FALSE) = WithEnabled(ruleSets, id, r, FALSE)
             /\ activeRuleSetId' = activeRuleSetId
        /\ (DeleteRule(id, r) /\ lastCall'.result = TRUE) =>
             /\ ruleSets' = WithoutRule(ruleSets, id, r)
             /\ SameEvaluation(ruleSets', WithEnabled(ruleSets, id, r, FALSE)) ]_vars

\* C37 witness: updateRule has disabled the rule without conditions of the
\* active rule set, and the small transfer that it denied is approved.
C37_Witness ==
  /\ lastCall.op = "updateRule"
  /\ lastCall.result # NoId
  /\ lastCall.id \in DOMAIN ruleSets
  /\ lastCall.id = activeRuleSetId
  /\ ruleSets[lastCall.id].isActive
  /\ \E j \in DOMAIN ruleSets[lastCall.id].rules :
       /\ ruleSets[lastCall.id].rules[j].id = lastCall.ruleId
       /\ ~ruleSets[lastCall.id].rules[j].isEnabled
       /\ ruleSets[lastCall.id].rules[j].conditions = <<>>
  /\ evaluateTransaction(TxTransferSmall, NoId).isApproved
  /\ ~EvaluateOn(WithEnabled(ruleSets, lastCall.id, lastCall.ruleId, TRUE),
                 activeRuleSetId, TxTransferSmall, NoId).isApproved

\* transaction_approved events logged for a request
ApprovedEvents(l, id) ==
  Cardinality({i \in DOMAIN l[id] : l[id][i].name = "transaction_approved"})

\* C34: approveTransaction returns true exactly when it found the request
\* pending and moved it to approved; a call that returns false has left the
\* status as it was and emitted no transaction_approved.  A call that
\* reaches the wallet has made the transition, so it returns true whatever
\* the wallet answers; a call that returns without reaching the wallet
\* returns false and has changed nothing.
C34_ApproveResultTellsTransition ==
  [][ /\ \A id \in RequestIdInputs, c \in Comments, k \in BOOLEAN, p \in BOOLEAN :
           (ApproveTransaction(id, c, k, p) /\ inflight' = inflight) =>
             /\ lastCall'.result = ApproveAccepts(approvalRequests, id)
             /\ lastCall'.result = FALSE =>
                  /\ approvalRequests' = approvalRequests
                  /\ \A r \in DOMAIN log :
                       ApprovedEvents(log', r) = ApprovedEvents(log, r)
      /\ \A call \in inflight, ok \in BOOLEAN :
           (call.caller = "approveTransaction" /\ ExecuteSettle(call, ok)) =>
             lastCall'.result = TRUE ]_vars

\* wallet calls (sendTransaction) logged for a request
WalletCalls(id) ==
  {i \in DOMAIN log[id] : log[id][i].name = "sendTransaction"}

\* C35: over the whole life of a request, and after it was purged, the wallet
\* was asked to broadcast it at most once, and the request was approved or
\* auto_approved when it was asked.
C35_BroadcastAtMostOnce ==
  \A id \in DOMAIN log :
    /\ Cardinality(WalletCalls(id)) <= 1
    /\ \A i \in WalletCalls(id) :
         log[id][i].status \in {"approved", "auto_approved"}

\* C35 witness: while the broadcast of an approved request is in flight,
\* approveTransaction was called for it again and refused, and the wallet was
\* asked once.
C35_Witness ==
  \E call \in inflight :
    /\ call.caller = "approveTransaction"
    /\ Cardinality(WalletCalls(call.id)) = 1
    /\ lastCall = [op |-> "approveTransaction", id |-> call.id, result |-> FALSE]

\* what a failure inside one handler leaves alone: the monitoring state, the
\* subscriptions, both sets, the events and the other handlers in flight
FailureContained ==
  /\ UNCHANGED <<isMonitoring, subscribed, monitoredAddresses,
                 pendingTransactions, confirmedTransactions, monitorLog>>

AnnouncedBefore(first, second) ==
  \E i \in DOMAIN monitorLog, j \in DOMAIN monitorLog :
    /\ i < j
    /\ monitorLog[i] = PendingEvent(first)
    /\ monitorLog[j] = PendingEvent(second)

\* C32: a failing fetch, a failing block fetch and a failing receipt fetch
\* end the handler they occur in and nothing else: the monitor stays started
\* and subscribed, both sets and the handlers of other hashes and blocks are
\* untouched.  A transaction whose payload does not decode is stored and
\* announced all the same.  Whatever failed before, a report of an unknown
\* hash to the subscribed monitor starts a fetch and a mined block starts the
\* handling of that block; the monitor, once started, stays started and
\* subscribed.
C32_FailureContained ==
  /\ [](started > 0 => isMonitoring /\ subscribed)
  /\ [][ /\ \A call \in fetching, k \in BOOLEAN, p \in BOOLEAN :
              FetchSettle(call, FALSE, k, p) =>
                /\ FailureContained
                /\ fetching' = fetching \ {call}
                /\ sweeps' = sweeps
         /\ \A call \in sweeps :
              (BlockFetched(call, FALSE) \/ ReceiptSettle(call, "thrown")) =>
                /\ FailureContained
                /\ sweeps' = sweeps \ {call}
                /\ fetching' = fetching
         /\ \A call \in fetching :
              ( /\ FetchAnswers(call)
                /\ DecodeFails(ChainTransaction(call.hash))
                /\ ~Dropped(ChainTransaction(call.hash)) ) =>
                /\ call.hash \in DOMAIN pendingTransactions'
                /\ monitorLog' = Append(monitorLog, PendingEvent(call.hash))
                /\ UNCHANGED <<isMonitoring, subscribed>>
         /\ \A hash \in ReportedHashes :
              (ReportPending(hash) /\ ~AlreadyProcessed(hash)) =>
                \E call \in fetching' \ fetching : call.hash = hash
         /\ \A included \in SUBSET ReportedHashes :
              (NewBlock(included) /\ subscribed) =>
                \E call \in sweeps' \ sweeps : call.block = Len(chain') ]_vars

\* C32 witness: the payload of h4 did not decode; h4 was stored without
\* decoded data, and afterwards h3 was announced and its confirmation
\* announced, the monitor being started and subscribed.
C32_Witness ==
  /\ isMonitoring /\ subscribed
  /\ DecodeFails(ChainTransaction("h4"))
  /\ \E set \in {pendingTransactions, confirmedTransactions} :
       "h4" \in DOMAIN set /\ set["h4"].method = NoDecodedData.method
  /\ AnnouncedBefore("h4", "h3")
  /\ \E i \in DOMAIN monitorLog : monitorLog[i] = ConfirmedEvent("h3")

\* C38: no hash is in the pending set and in the confirmed set at once, and
\* no step puts a hash of the confirmed set into the pending set.
C38_PendingConfirmedDisjoint ==
  /\ [](DOMAIN pendingTransactions \cap DOMAIN confirmedTransactions = {})
  /\ [][ \A h \in DOMAIN confirmedTransactions :
           h \notin DOMAIN pendingTransactions' ]_vars

\* C39: for every hash confirmed_transaction was emitted at most once.
C39_ConfirmedOncePerHash ==
  \A hash \in ReportedHashes :
    Cardinality({i \in DOMAIN monitorLog :
                   monitorLog[i] = ConfirmedEvent(hash)}) <= 1

MonitorEventCount(l, name) ==
  Cardinality({i \in DOMAIN l : l[i].name = name})

NoRecordAdded(before, after) ==
  \A h \in DOMAIN after : h \in DOMAIN before /\ after[h] = before[h]

\* C40: once stopMonitoring has returned and monitoring_stopped was emitted,
\* and until startMonitoring is called, no step emits pending_transaction or
\* confirmed_transaction and no step adds or rewrites a record of the pending
\* or the confirmed set; this holds for the handlers that were awaiting a
\* fetch when stopMonitoring was called.
C40_QuietAfterStop ==
  [][ Stopped =>
        /\ MonitorEventCount(monitorLog', "pending_transaction")
             = MonitorEventCount(monitorLog, "pending_transaction")
        /\ MonitorEventCount(monitorLog', "confirmed_transaction")
             = MonitorEventCount(monitorLog, "confirmed_transaction")
        /\ NoRecordAdded(pendingTransactions, pendingTransactions')
        /\ NoRecordAdded(confirmedTransactions, confirmedTransactions') ]_vars

====
